---- MODULE Spec2Model ----
(***************************************************************************)
(* Model of the wyreup-mcp tool execution engine: the sliding-window       *)
(* RateLimiter (lib/rateLimiter.js), the HealthMonitor                     *)
(* (lib/healthMonitor.js) and executeTool with its retry loop              *)
(* (lib/execute.js).                                                       *)
(*                                                                         *)
(* An optional JavaScript field is modelled as a set with at most one      *)
(* element: {} is "undefined", {v} is the value v.                         *)
(***************************************************************************)
EXTENDS Integers, Sequences, FiniteSets, TLC

VARIABLES
    now,        \* Date.now(), in milliseconds
    manifest,   \* the validated tool definitions, by tool name
    windows,    \* RateLimiter.windows : Map toolName -> array of timestamps
    stats,      \* HealthMonitor.stats : Map toolName -> HealthStats
    pc,         \* for each executeTool call, where it is suspended
    call,       \* for each executeTool call, its local variables
    result,     \* for each executeTool call, the value it returned
    attempts,   \* history: number of fetch() requests a call has issued
    sleeps,     \* history: the backoff delays a call has slept, in order
    admitted,   \* history: per tool, every timestamp isAllowed accepted
    recorded,   \* history: number of recordExecution calls a call has made
    rlLog,      \* history: the isAllowed calls made directly, <<time, answer>>
    setup,      \* each tool's auth, authFrom and async, the secret files, process.env
    request,    \* for each executeTool call, the request it passes to fetch
    server,     \* the MCP server: its toolsConfig and what it registered
    manifestFile, \* the parsed manifest given to validateManifest, its answer
    transform,  \* the entry given to transformSimplifiedTool, what it returned
    jobs,       \* the in-memory job store of lib/jobs.js, by job id
    monitor,    \* the health probes, and a history of the recorded times
    stream      \* a streaming response body and what has been read from it

vars == <<now, manifest, windows, stats, pc, call, result, attempts, sleeps,
          admitted, recorded, rlLog, setup, request, server, manifestFile,
          transform, jobs, monitor, stream>>

----------------------------------------------------------------------------
(* Bounds of the model *)

NumCalls == 3           \* concurrent executeTool calls
MaxRequests == 2        \* largest rateLimit.requests in a manifest
MaxWindow == 2          \* largest rateLimit.window in a manifest (besides 1000)
MaxRetriesCfg == 2      \* largest configured maxRetries (validator allows 0..10)
MaxRetryDelayCfg == 1   \* largest configured retryDelay
MaxTimeoutCfg == 1      \* largest configured timeout
MaxTime == 3            \* the clock ticks one by one up to here, then jumps to timers
MaxRLCalls == 4         \* isAllowed calls made in the rate limiter specification
MaxRLTime == 1100       \* last instant of the rate limiter specification

(* Program constants *)

DefaultTimeout == 30000
DefaultMaxRetries == 3
DefaultRetryDelay == 1000

Names == {"echo"}       \* the tool names of the manifest

\* the tool names the rate limiter and the health monitor are called with
StoreNames == Names \cup {"other"}
Calls == 1..NumCalls

\* the value held by an optional field that is present
Val(opt) == CHOOSE v \in opt : TRUE

\* JavaScript `x || d` for a numeric optional field: undefined and 0 are falsy
OrDefault(opt, d) == IF opt = {} \/ opt = {0} THEN d ELSE Val(opt)

RECURSIVE Pow2(_)
Pow2(n) == IF n <= 0 THEN 1 ELSE 2 * Pow2(n - 1)

----------------------------------------------------------------------------
(* RateLimiter *)

\* mutant: a timestamp exactly one window old is still counted
FilterValidInclusive(requests, windowStart) ==
    SelectSeq(requests, LAMBDA timestamp : timestamp >= windowStart)

\* requests.filter(timestamp => timestamp > windowStart)
FilterValid(requests, windowStart) ==
    SelectSeq(requests, LAMBDA timestamp : timestamp > windowStart)

\* the array stored for toolName, created empty when the Map has no entry
WindowOf(w, toolName) == IF toolName \in DOMAIN w THEN w[toolName] ELSE <<>>

\* mutant: the value is stored under every key
MapSetClobbers(m, k, v) == [x \in DOMAIN m \cup {k} |-> v]

\* Map.set
MapSet(m, k, v) == [x \in DOMAIN m \cup {k} |-> IF x = k THEN v ELSE m[x]]

\* mutant: the limit test is off by one
OverLimitOffByOne(validRequests, config) == Len(validRequests) > config.requests

\* the limit test of isAllowed: validRequests.length >= config.requests
OverLimit(validRequests, config) == Len(validRequests) >= config.requests

\* mutant: the accepted request is not written back to the Map
IsAllowedLostAppend(w, toolName, cfg, t) ==
    IF cfg = {} \/ Val(cfg).requests = 0 \/ Val(cfg).window = 0
    THEN [allowed |-> TRUE, windows |-> w]
    ELSE LET config == Val(cfg)
             windowStart == t - config.window
             validRequests == FilterValid(WindowOf(w, toolName), windowStart)
         IN  [allowed |-> ~OverLimit(validRequests, config),
              windows |-> MapSet(w, toolName, validRequests)]

\* isAllowed(toolName, config): the answer, and the windows Map it leaves
IsAllowed(w, toolName, cfg, t) ==
    IF cfg = {} \/ Val(cfg).requests = 0 \/ Val(cfg).window = 0
    THEN [allowed |-> TRUE, windows |-> w]
    ELSE LET config == Val(cfg)
             windowStart == t - config.window
             validRequests == FilterValid(WindowOf(w, toolName), windowStart)
         IN  IF OverLimit(validRequests, config)
             THEN [allowed |-> FALSE,
                   windows |-> MapSet(w, toolName, validRequests)]
             ELSE [allowed |-> TRUE,
                   windows |-> MapSet(w, toolName, Append(validRequests, t))]

\* getStatus(toolName, config)
GetStatus(w, toolName, cfg, t) ==
    IF cfg = {} \/ toolName \notin DOMAIN w
    THEN [requests |-> 0,
          limit |-> IF cfg = {} THEN 0 ELSE Val(cfg).requests,
          resetTime |-> {}]
    ELSE LET config == Val(cfg)
             validRequests == FilterValid(w[toolName], t - config.window)
         IN  [requests |-> Len(validRequests),
              limit |-> config.requests,
              resetTime |-> IF Len(validRequests) > 0
                            THEN {validRequests[1] + config.window}
                            ELSE {}]

----------------------------------------------------------------------------
(* HealthMonitor *)

RECURSIVE GCD(_, _)
GCD(a, b) == IF b = 0 THEN a ELSE GCD(b, a % b)

\* a non-negative rational in lowest terms; avgResponseTime is one
Ratio(n, d) == LET g == GCD(n, d) IN
               IF g = 0 THEN <<0, 1>> ELSE <<n \div g, d \div g>>

\* the value of a field of an object, undefined when the object lacks it
Get(r, f) == IF f \in DOMAIN r THEN {r[f]} ELSE {}

NewStats == [total |-> 0, success |-> 0, errors |-> 0,
             avgResponseTime |-> <<0, 1>>,
             lastSuccess |-> {}, lastError |-> {},
             errorTypes |-> <<>>]

\* mutant: a failure without errorType is not counted in errorTypes
RecordExecutionErrorTypeLost(st, toolName, res) ==
    LET old == IF toolName \in DOMAIN st THEN st[toolName] ELSE NewStats
        success == old.success + 1
        rt == Get(res, "responseTime")
        errorType == IF Get(res, "errorType") = {} THEN "unknown"
                     ELSE res.errorType
        count == IF errorType \in DOMAIN old.errorTypes
                 THEN old.errorTypes[errorType] ELSE 0
        new == IF res.success
               THEN [old EXCEPT
                       !.total = @ + 1,
                       !.success = success,
                       !.lastSuccess = Get(res, "timestamp"),
                       !.avgResponseTime =
                           IF rt = {} \/ rt = {0} THEN @
                           ELSE Ratio(@[1] * (success - 1) + Val(rt) * @[2],
                                      @[2] * success)]
               ELSE [old EXCEPT
                       !.total = @ + 1,
                       !.errors = @ + 1,
                       !.lastError = {[timestamp |-> Get(res, "timestamp"),
                                       error |-> Get(res, "error"),
                                       status |-> Get(res, "status")]},
                       !.errorTypes = IF Get(res, "errorType") = {} THEN @
                                      ELSE MapSet(@, errorType, count + 1)]
    IN  MapSet(st, toolName, new)

\* recordExecution(toolName, result): the stats Map it leaves
RecordExecution(st, toolName, res) ==
    LET old == IF toolName \in DOMAIN st THEN st[toolName] ELSE NewStats
        success == old.success + 1
        rt == Get(res, "responseTime")
        errorType == IF Get(res, "errorType") = {} THEN "unknown"
                     ELSE res.errorType
        count == IF errorType \in DOMAIN old.errorTypes
                 THEN old.errorTypes[errorType] ELSE 0
        new == IF res.success
               THEN [old EXCEPT
                       !.total = @ + 1,
                       !.success = success,
                       !.lastSuccess = Get(res, "timestamp"),
                       !.avgResponseTime =
                           IF rt = {} \/ rt = {0} THEN @
                           ELSE Ratio(@[1] * (success - 1) + Val(rt) * @[2],
                                      @[2] * success)]
               ELSE [old EXCEPT
                       !.total = @ + 1,
                       !.errors = @ + 1,
                       !.lastError = {[timestamp |-> Get(res, "timestamp"),
                                       error |-> Get(res, "error"),
                                       status |-> Get(res, "status")]},
                       !.errorTypes = MapSet(@, errorType, count + 1)]
    IN  MapSet(st, toolName, new)

----------------------------------------------------------------------------
(* Tool definitions that pass validateTool *)

MethodCfgs == {{}, {"get"}}

RateLimitCfgs ==
    {{}} \cup {{[requests |-> r, window |-> w]} :
                   r \in 1..MaxRequests, w \in 1..MaxWindow}

ToolDefs ==
    [method : MethodCfgs,
     urlValid : BOOLEAN,           \* whether new URL(tool.url) parses
     rateLimit : RateLimitCfgs,
     maxRetries : {{}} \cup {{n} : n \in 0..MaxRetriesCfg},
     retryDelay : {{}} \cup {{n} : n \in 0..MaxRetryDelayCfg},
     timeout : {{}} \cup {{n} : n \in 1..MaxTimeoutCfg}]

\* String.prototype.toUpperCase on the method names in use
ToUpperCase(str) == CASE str = "get" -> "GET"
                      [] str = "post" -> "POST"
                      [] OTHER -> str

\* toolConfig.method?.toUpperCase() || 'POST'
Method(tool) == IF tool.method = {} THEN "POST" ELSE ToUpperCase(Val(tool.method))

Timeout(tool) == OrDefault(tool.timeout, DefaultTimeout)
MaxRetries(tool) == OrDefault(tool.maxRetries, DefaultMaxRetries)
RetryDelay(tool) == OrDefault(tool.retryDelay, DefaultRetryDelay)

\* the request payloads: a non-empty object, an empty object, null
ArgKinds == {"object", "emptyObject", "null"}

\* new URL(effectiveTargetUrl) on the GET path throws on a url that does not parse
UrlConstructionThrows(tool, args) ==
    Method(tool) = "GET" /\ args = "object" /\ ~tool.urlValid

----------------------------------------------------------------------------
(* Credentials and headers of the outbound request                         *)
(*                                                                         *)
(* A header object is the sequence of its [key, value] entries in          *)
(* insertion order; its keys are distinct.                                 *)

MaxCallerHeaders == 2   \* largest number of headers a caller passes

Users == {"alice"}
EnvVars == {"API_KEY"}
EnvValues == {"", "from-env"}

\* String.prototype.toLowerCase on the header names in use
ToLowerCase(str) ==
    CASE str \in {"Authorization", "AUTHORIZATION"} -> "authorization"
      [] str \in {"X-Api-Key", "X-API-KEY"} -> "x-api-key"
      [] str \in {"Host", "HOST"} -> "host"
      [] str \in {"Content-Length", "CONTENT-LENGTH"} -> "content-length"
      [] str \in {"User-Agent", "USER-AGENT"} -> "user-agent"
      [] str \in {"Content-Type", "CONTENT-TYPE"} -> "content-type"
      [] str \in {"Accept", "ACCEPT"} -> "accept"
      [] OTHER -> str

HasKey(headers, key) == \E i \in DOMAIN headers : headers[i].key = key

\* headers[key] = value
SetHeader(headers, key, value) ==
    IF HasKey(headers, key)
    THEN [i \in DOMAIN headers |->
             IF headers[i].key = key THEN [key |-> key, value |-> value]
             ELSE headers[i]]
    ELSE Append(headers, [key |-> key, value |-> value])

\* delete headers[key]
DeleteHeader(headers, key) == SelectSeq(headers, LAMBDA h : h.key # key)

\* mutant: only the property spelled exactly like keyToDelete is deleted
DeleteHeaderCaseSensitive(headers, keyToDelete) ==
    SelectSeq(headers, LAMBDA h : h.key # keyToDelete)

DeleteHeaderCaseInsensitive(headers, keyToDelete) ==
    SelectSeq(headers,
              LAMBDA h : ToLowerCase(h.key) # ToLowerCase(keyToDelete))

\* the keys whose lower-case spelling is lowerKey, in insertion order
KeysMatching(headers, lowerKey) ==
    SelectSeq(headers, LAMBDA h : ToLowerCase(h.key) = lowerKey)

\* the auth objects a tool definition or a secret file can hold
AuthNames == {"X-Api-Key", "content-type", "User-Agent"}
HeaderAuths ==
    {a \in [type : {"header"}, name : {{n} : n \in AuthNames},
            value : {{}, {"literal"}}, valueFromEnv : {{}, {"API_KEY"}},
            token : {{}}, tokenFromEnv : {{}}] :
        a.value # {} \/ a.valueFromEnv # {}}
JwtAuths ==
    {a \in [type : {"jwt"}, name : {{}}, value : {{}}, valueFromEnv : {{}},
            token : {{}, {"literal"}}, tokenFromEnv : {{}, {"API_KEY"}}] :
        a.token # {} \/ a.tokenFromEnv # {}}
AuthObjs == HeaderAuths \cup JwtAuths

\* a string that is present and not empty: the truthy values in use
Truthy(opt) == opt # {} /\ opt # {""}

\* loadSecretAuth(user, toolName): parsed[toolName] || null
LoadSecretAuth(user, toolName) ==
    IF user \in DOMAIN setup.secrets /\ toolName \in DOMAIN setup.secrets[user]
    THEN setup.secrets[user][toolName]
    ELSE {}

\* let auth = toolConfig.auth, overridden by the secret loaded for authFrom
EffectiveAuth(toolName) ==
    LET authFrom == setup.authFrom[toolName]
        loaded == LoadSecretAuth(Val(authFrom).user, toolName)
    IN  IF authFrom # {} /\ Val(authFrom).user # "" /\ toolName # ""
           /\ loaded # {}
        THEN loaded
        ELSE setup.auth[toolName]

\* process.env[name]
ProcessEnv(name) == IF name \in DOMAIN setup.env THEN setup.env[name] ELSE {}

\* literal overridden by process.env[fromEnv] when that is truthy
FromEnvOrLiteral(fromEnv, literal) ==
    IF Truthy(fromEnv) /\ Truthy(ProcessEnv(Val(fromEnv)))
    THEN ProcessEnv(Val(fromEnv))
    ELSE literal

\* authValue of the 'header' case
AuthValue(auth) ==
    IF auth # {} /\ Val(auth).type = "header" /\ Truthy(Val(auth).name)
    THEN FromEnvOrLiteral(Val(auth).valueFromEnv, Val(auth).value)
    ELSE {}

\* jwtToken of the 'jwt' case
JwtToken(auth) ==
    IF auth # {} /\ Val(auth).type = "jwt"
    THEN FromEnvOrLiteral(Val(auth).tokenFromEnv, Val(auth).token)
    ELSE {}

\* `Bearer ${jwtToken}`
Bearer(token) == "Bearer " \o token

\* the deletions made for the effective auth before the body is prepared
DeleteAuthHeaders(headers, auth) ==
    LET h1 == IF auth # {} /\ Val(auth).type = "header"
                 /\ Truthy(Val(auth).name)
              THEN DeleteHeaderCaseInsensitive(headers, Val(Val(auth).name))
              ELSE headers
    IN  IF auth # {} /\ Val(auth).type = "jwt"
        THEN DeleteHeaderCaseInsensitive(h1, "Authorization")
        ELSE h1

\* Content-Type and Accept of a POST/PUT/PATCH with an object payload
ForceJsonHeaders(headers, method, args) ==
    IF method \in {"POST", "PUT", "PATCH"} /\ args \in {"object", "emptyObject"}
    THEN LET existing == KeysMatching(headers, "content-type")
             h1 == IF existing # <<>>
                   THEN DeleteHeader(headers, existing[1].key)
                   ELSE headers
             h2 == SetHeader(h1, "Content-Type", "application/json")
             h3 == DeleteHeaderCaseInsensitive(h2, "Accept")
         IN  SetHeader(h3, "Accept", "application/json")
    ELSE headers

\* switch (auth.type): the header the effective auth sets
ApplyAuth(headers, auth) ==
    IF auth = {} THEN headers
    ELSE IF Val(auth).type = "header"
    THEN IF AuthValue(auth) # {}
         THEN SetHeader(headers, Val(Val(auth).name), Val(AuthValue(auth)))
         ELSE headers
    ELSE IF Val(auth).type = "jwt"
    THEN IF Truthy(JwtToken(auth))
         THEN SetHeader(headers, "Authorization", Bearer(Val(JwtToken(auth))))
         ELSE headers
    ELSE headers

\* the headers the transport regenerates are removed last
StripHopByHop(headers) ==
    DeleteHeaderCaseInsensitive(
        DeleteHeaderCaseInsensitive(
            DeleteHeaderCaseInsensitive(headers, "Host"),
            "Content-Length"),
        "User-Agent")

\* finalHeaders, as passed to fetch
FinalHeaders(toolName, method, args, originalHeaders) ==
    LET auth == EffectiveAuth(toolName)
    IN  StripHopByHop(
            ApplyAuth(
                ForceJsonHeaders(DeleteAuthHeaders(originalHeaders, auth),
                                 method, args),
                auth))

\* what executeTool passes to fetch, with the auth it resolved
OutboundRequest(toolName, tool, args, originalHeaders) ==
    [method |-> Method(tool),
     originalHeaders |-> originalHeaders,
     headers |-> FinalHeaders(toolName, Method(tool), args, originalHeaders),
     auth |-> EffectiveAuth(toolName),
     authValue |-> AuthValue(EffectiveAuth(toolName))]

----------------------------------------------------------------------------
(* validateTool                                                            *)
(*                                                                         *)
(* A tool object as the manifest gives it: each field is a record with     *)
(* `kind`, the typeof of its value ("undefined" when the field is absent,  *)
(* "null" and "array" told apart from "object"), and the value.            *)

MaxDeviations == 2      \* fields in which a tool object differs from BaseTool

Undefined == "undefined"

Str(s) == [kind |-> "string", str |-> s]
NoStr(k) == [kind |-> k, str |-> ""]
Num(n) == [kind |-> "number", num |-> n]
NoNum(k) == [kind |-> k, num |-> 0]
Shape(k) == [kind |-> k]

NoAuthObj == [type |-> "", name |-> {}, value |-> {}, valueFromEnv |-> {},
              token |-> {}, tokenFromEnv |-> {}]
AuthOf(obj) == [kind |-> "object", obj |-> obj]
NoAuth(k) == [kind |-> k, obj |-> NoAuthObj]

\* the auth objects a manifest can give, valid or not
RawAuthObjs ==
    [type : {"header"}, name : {{}, {"X-Api-Key"}, {" "}},
     value : {{}, {"literal"}}, valueFromEnv : {{}, {"API_KEY"}},
     token : {{}}, tokenFromEnv : {{}}]
    \cup [type : {"jwt"}, name : {{}}, value : {{}}, valueFromEnv : {{}},
          token : {{}, {"literal"}, {" "}}, tokenFromEnv : {{}, {"API_KEY"}}]
    \cup [type : {"", "basic"}, name : {{}}, value : {{}},
          valueFromEnv : {{}}, token : {{}}, tokenFromEnv : {{}}]

RateLimitOf(r, w) == [kind |-> "object", requests |-> r, window |-> w]
NoRateLimit(k) == [kind |-> k, requests |-> 0, window |-> 0]

\* a tool definition with the required fields only
BaseTool ==
    [name |-> Str("echo"), description |-> Str("Echo"),
     url |-> Str("http://host/hook"), method |-> NoStr(Undefined),
     input |-> Shape(Undefined), output |-> Shape(Undefined),
     auth |-> NoAuth(Undefined), authFrom |-> NoStr(Undefined),
     timeout |-> NoNum(Undefined), maxRetries |-> NoNum(Undefined),
     retryDelay |-> NoNum(Undefined), rateLimit |-> NoRateLimit(Undefined)]

Fields == DOMAIN BaseTool

\* the values a manifest can give to a field
FieldVals(f) ==
    CASE f = "name" -> {NoStr(Undefined), Str(""), Str(" "), NoStr("number")}
      [] f = "description" -> {NoStr(Undefined), Str("")}
      [] f = "url" -> {NoStr(Undefined), Str("")}
      [] f = "method" -> {Str("get"), Str("POST"), Str("FETCH"),
                          NoStr("number")}
      [] f \in {"input", "output"} ->
             {Shape("object"), Shape("null"), Shape("array"), Shape("string")}
      [] f = "auth" -> {AuthOf(a) : a \in RawAuthObjs}
                       \cup {NoAuth("null"), NoAuth("array"), NoAuth("string")}
      [] f = "authFrom" -> {[kind |-> "object", str |-> "alice"]}
      [] f = "timeout" -> {Num(1), Num(0), NoNum("string")}
      [] f = "maxRetries" -> {Num(0), Num(2), Num(11), Num(-1),
                              NoNum("string")}
      [] f = "retryDelay" -> {Num(0), Num(1), Num(-1), NoNum("string")}
      [] f = "rateLimit" -> {RateLimitOf(1, 1), RateLimitOf(0, 1),
                             RateLimitOf(1, 0), NoRateLimit("null"),
                             NoRateLimit("number"), NoRateLimit("string")}

\* the tool objects that differ from BaseTool in at most k fields
RECURSIVE Deviating(_)
Deviating(k) ==
    IF k = 0 THEN {BaseTool}
    ELSE LET fewer == Deviating(k - 1)
         IN  fewer \cup UNION {{[t EXCEPT ![f] = v] :
                                   t \in fewer, v \in FieldVals(f)} :
                               f \in Fields}


\* String.prototype.trim on the strings in use
Trim(str) == IF str = " " THEN "" ELSE str

VALID_METHODS == {"GET", "POST", "PUT", "PATCH", "DELETE"}
VALID_AUTH_TYPES == {"header", "jwt"}

\* !v || typeof v !== 'string' || !v.trim()
NotNonEmptyString(v) == v.kind # "string" \/ Trim(v.str) = ""

\* typeof v !== 'object' || v === null || Array.isArray(v)
NotPlainObject(v) == v.kind # "object"

\* the errors pushed for tool.auth
AuthErrors(auth) ==
    IF auth.kind = Undefined THEN <<>>
    ELSE IF NotPlainObject(auth) THEN <<"INVALID_AUTH">>
    ELSE IF auth.obj.type \notin VALID_AUTH_TYPES THEN <<"INVALID_AUTH_TYPE">>
    ELSE IF auth.obj.type = "header"
    THEN (IF ~Truthy(auth.obj.name) \/ Trim(Val(auth.obj.name)) = ""
          THEN <<"INVALID_AUTH_HEADER_NAME">> ELSE <<>>)
         \o (IF ~Truthy(auth.obj.value) /\ ~Truthy(auth.obj.valueFromEnv)
             THEN <<"auth requires either value or valueFromEnv">>
             ELSE <<>>)
    ELSE LET hasToken == Truthy(auth.obj.token)
                         /\ Trim(Val(auth.obj.token)) # ""
             hasTokenFromEnv == Truthy(auth.obj.tokenFromEnv)
         IN  IF ~hasToken /\ ~hasTokenFromEnv
             THEN <<"auth requires either token or tokenFromEnv">>
             ELSE <<>>

\* errors: the violations validateTool collects, in the order it checks
ValidateErrors(tool) ==
    (IF NotNonEmptyString(tool.name) THEN <<"INVALID_NAME">> ELSE <<>>)
    \o (IF NotNonEmptyString(tool.description)
        THEN <<"INVALID_DESCRIPTION">> ELSE <<>>)
    \o (IF NotNonEmptyString(tool.url) THEN <<"INVALID_URL">> ELSE <<>>)
    \o (IF tool.method.kind # Undefined
           /\ (tool.method.kind # "string"
               \/ ToUpperCase(tool.method.str) \notin VALID_METHODS)
        THEN <<"INVALID_METHOD">> ELSE <<>>)
    \o (IF tool.input.kind # Undefined /\ NotPlainObject(tool.input)
        THEN <<"INVALID_INPUT_SCHEMA">> ELSE <<>>)
    \o (IF tool.output.kind # Undefined /\ NotPlainObject(tool.output)
        THEN <<"INVALID_OUTPUT_SCHEMA">> ELSE <<>>)
    \o AuthErrors(tool.auth)
    \o (IF tool.timeout.kind # Undefined
           /\ (tool.timeout.kind # "number" \/ tool.timeout.num <= 0)
        THEN <<"invalid timeout">> ELSE <<>>)
    \o (IF tool.maxRetries.kind # Undefined
           /\ (tool.maxRetries.kind # "number" \/ tool.maxRetries.num < 0
               \/ tool.maxRetries.num > 10)
        THEN <<"invalid maxRetries">> ELSE <<>>)
    \o (IF tool.retryDelay.kind # Undefined
           /\ (tool.retryDelay.kind # "number" \/ tool.retryDelay.num < 0)
        THEN <<"invalid retryDelay">> ELSE <<>>)
    \o (IF tool.rateLimit.kind # Undefined
           /\ (tool.rateLimit.kind # "object" \/ tool.rateLimit.requests = 0
               \/ tool.rateLimit.window = 0)
        THEN <<"invalid rateLimit">> ELSE <<>>)

\* what a call of validateTool ends in
Returns(b) == [kind |-> "return", value |-> b, message |-> ""]
Throws(k, m) == [kind |-> k, value |-> FALSE, message |-> m]

\* mutant: nothing is ever found wrong
ValidateToolAcceptsAll(tool, throwOnError) == Returns(TRUE)

\* validateTool(tool, throwOnError): `!tool.rateLimit.requests` throws a
\* TypeError when tool.rateLimit is null, whose typeof is 'object'
ValidateTool(tool, throwOnError) ==
    IF tool.rateLimit.kind = "null"
    THEN Throws("TypeError", "Cannot read properties of null")
    ELSE IF ValidateErrors(tool) = <<>> THEN Returns(TRUE)
    ELSE IF throwOnError THEN Throws("McpError", ValidateErrors(tool)[1])
    ELSE Returns(FALSE)

\* mutant: the debug branch comes before the throw
ValidateToolDebugWarnsFirst(tool, throwOnError, debug) ==
    IF tool.rateLimit.kind = "null"
    THEN [outcome |-> Throws("TypeError", "Cannot read properties of null"),
          warnings |-> <<>>]
    ELSE LET errors == ValidateErrors(tool)
         IN  IF errors = <<>>
             THEN [outcome |-> Returns(TRUE), warnings |-> <<>>]
             ELSE IF debug
             THEN [outcome |-> Returns(FALSE), warnings |-> errors]
             ELSE IF throwOnError
             THEN [outcome |-> Throws("McpError", errors[1]),
                   warnings |-> <<>>]
             ELSE [outcome |-> Returns(FALSE), warnings |-> <<>>]

\* validateTool(tool, throwOnError, debug): what the call ends in and the
\* [DEBUG] lines it has written with console.warn.  The tool objects have
\* known fields only.
ValidateToolDebug(tool, throwOnError, debug) ==
    IF tool.rateLimit.kind = "null"
    THEN [outcome |-> Throws("TypeError", "Cannot read properties of null"),
          warnings |-> <<>>]
    ELSE LET errors == ValidateErrors(tool)
         IN  IF errors = <<>>
             THEN [outcome |-> Returns(TRUE), warnings |-> <<>>]
             ELSE IF throwOnError
             THEN [outcome |-> Throws("McpError", errors[1]),
                   warnings |-> <<>>]
             ELSE [outcome |-> Returns(FALSE),
                   warnings |-> IF debug THEN errors ELSE <<>>]

\* validateTool(tool, throwOnError, debug) is called for the tool object of
\* toolsConfig, once in each mode
ValidateToolCall(throwOnError, debug) ==
    /\ server.tools # <<>>
    /\ \A i \in DOMAIN server.validations :
          \/ server.validations[i].throwOnError # throwOnError
          \/ server.validations[i].debug # debug
    /\ LET v == ValidateToolDebug(server.tools[1], throwOnError, debug)
       IN  server' = [server EXCEPT
                        !.validations =
                            Append(@, [tool |-> server.tools[1],
                                       throwOnError |-> throwOnError,
                                       debug |-> debug,
                                       outcome |-> v.outcome,
                                       warnings |-> v.warnings])]
    /\ UNCHANGED <<now, manifest, windows, stats, pc, call, result, attempts,
                   sleeps, admitted, recorded, rlLog, setup, request,
                   manifestFile, transform, jobs, monitor, stream>>

----------------------------------------------------------------------------
(* validateManifest                                                        *)
(*                                                                         *)
(* config.tools is a record with `kind` ("array", or what it is instead)   *)
(* and `items`, the tool objects of the array.  An entry of the error list *)
(* is a record: what the message says, the index and the name it quotes.   *)

MaxTools == 3           \* longest tools array of a manifest

NoIndex == -1

\* an entry of errors: 'Field "tools": ...', `Tool at index ${index}: ...`,
\* `Duplicate tool name found: "${name}". ...`
ManifestError(kind, index, name) ==
    [kind |-> kind, index |-> index, name |-> name]

\* tool.name && typeof tool.name === 'string'
HasNameString(tool) == tool.name.kind = "string" /\ tool.name.str # ""

\* the elements of an array
Elements(array) == {array[i] : i \in DOMAIN array}

\* the errors the forEach pushes for the tools at (0-based) index < k
RECURSIVE ToolErrors(_, _)
ToolErrors(tools, k) ==
    IF k = 0 THEN <<>>
    ELSE LET outcome == ValidateTool(tools[k], FALSE)
         IN  ToolErrors(tools, k - 1) \o
             (IF outcome.kind # "return" THEN <<ManifestError("toolThrew", k - 1, "")>>
              ELSE IF ~outcome.value THEN <<ManifestError("invalidTool", k - 1, "")>>
              ELSE <<>>)

\* toolNames, in insertion order, after the forEach has seen k tools
RECURSIVE ToolNames(_, _)
ToolNames(tools, k) ==
    IF k = 0 THEN <<>>
    ELSE LET seen == ToolNames(tools, k - 1)
         IN  IF HasNameString(tools[k]) /\ tools[k].name.str \notin Elements(seen)
             THEN Append(seen, tools[k].name.str)
             ELSE seen

RECURSIVE Duplicates(_, _)

\* mutant: a name is pushed to duplicates once, however often it repeats
DuplicatesOncePerName(tools, k) ==
    LET RECURSIVE Once(_)
        Once(n) ==
            IF n = 0 THEN <<>>
            ELSE IF /\ HasNameString(tools[n])
                    /\ tools[n].name.str \in Elements(ToolNames(tools, n - 1))
                    /\ tools[n].name.str \notin Elements(Once(n - 1))
                 THEN Append(Once(n - 1), tools[n].name.str)
                 ELSE Once(n - 1)
    IN  Once(k)

\* duplicates after the forEach has seen k tools
Duplicates(tools, k) ==
    IF k = 0 THEN <<>>
    ELSE IF /\ HasNameString(tools[k])
            /\ tools[k].name.str \in Elements(ToolNames(tools, k - 1))
         THEN Append(Duplicates(tools, k - 1), tools[k].name.str)
         ELSE Duplicates(tools, k - 1)

\* validateManifest(config, filePath)
ValidateManifest(config) ==
    IF config.kind # "array"
    THEN [success |-> FALSE, errors |-> <<ManifestError("toolsNotArray", NoIndex, "")>>,
          toolCount |-> {}, toolNames |-> {}]
    ELSE IF Len(config.items) = 0
    THEN [success |-> FALSE, errors |-> <<ManifestError("toolsEmpty", NoIndex, "")>>,
          toolCount |-> {}, toolNames |-> {}]
    ELSE LET tools == config.items
             duplicates == Duplicates(tools, Len(tools))
             errors == ToolErrors(tools, Len(tools)) \o
                       [i \in DOMAIN duplicates |->
                           ManifestError("duplicate", NoIndex, duplicates[i])]
         IN  [success |-> Len(errors) = 0, errors |-> errors,
              toolCount |-> {Len(tools)},
              toolNames |-> {ToolNames(tools, Len(tools))}]

\* no manifest has been read
NoManifestFile == [config |-> [kind |-> Undefined, items |-> <<>>],
                   validation |-> {}]

\* validateManifestWrapper calls validateManifest on the parsed manifest
ValidateManifestCall ==
    /\ manifestFile.validation = {}
    /\ manifestFile' = [manifestFile EXCEPT
                          !.validation = {ValidateManifest(manifestFile.config)}]
    /\ UNCHANGED <<now, manifest, windows, stats, pc, call, result, attempts,
                   sleeps, admitted, recorded, rlLog, setup, request, server,
                   transform, jobs, monitor, stream>>

----------------------------------------------------------------------------
(* transformSimplifiedTool                                                 *)
(*                                                                         *)
(* Tool entries are objects on a heap, a sequence indexed by reference:    *)
(* the function takes a reference and returns one.  An entry is a record   *)
(* of optional fields.                                                     *)

\* getWebhookDescription(webhookUrl) on the urls in use: the last path
\* segment made readable, else the hostname, else (new URL throws) nothing
GetWebhookDescription(webhookUrl) ==
    CASE webhookUrl = "https://host/hooks/send-email" -> "Send Email webhook"
      [] webhookUrl = "https://host" -> "host webhook"
      [] OTHER -> "webhook"

\* mutant: `transformed = tool`, the same object
AliasCopy(heap, tool) == [heap |-> heap, ref |-> tool]

\* const transformed = { ...tool }: a new object with the same fields
ShallowCopy(heap, tool) ==
    [heap |-> Append(heap, heap[tool]), ref |-> Len(heap) + 1]

\* mutant: the webhook field is left in place
RenameWebhookKeepsIt(obj) == [obj EXCEPT !.url = obj.webhook]

\* transformed.url = tool.webhook; delete transformed.webhook
RenameWebhook(obj) == [obj EXCEPT !.url = obj.webhook, !.webhook = {}]

\* transformSimplifiedTool(tool): the heap it leaves, the reference it returns
TransformSimplifiedTool(heap, tool) ==
    LET entry == heap[tool]
    IN  IF /\ Truthy(entry.description) /\ Truthy(entry.url)
           /\ Truthy(entry.input) /\ Truthy(entry.output)
        THEN [heap |-> heap, ref |-> tool]
        ELSE IF Truthy(entry.webhook) /\ ~Truthy(entry.url)
        THEN LET copy == ShallowCopy(heap, tool)
                 transformed == copy.ref
                 t1 == RenameWebhook(copy.heap[transformed])
                 t2 == IF ~Truthy(t1.description)
                       THEN [t1 EXCEPT !.description =
                               {"Forward to " \o
                                 GetWebhookDescription(Val(entry.webhook))}]
                       ELSE t1
                 t3 == IF ~Truthy(t2.method)
                       THEN [t2 EXCEPT !.method = {"POST"}] ELSE t2
                 t4 == IF ~Truthy(t3.input)
                       THEN [t3 EXCEPT !.input = {"emptyPropertiesSchema"}]
                       ELSE t3
                 t5 == IF ~Truthy(t4.output)
                       THEN [t4 EXCEPT !.output = {"resultStringSchema"}]
                       ELSE t4
                 t6 == IF t5.public = {}
                       THEN [t5 EXCEPT !.public = {FALSE}] ELSE t5
             IN  [heap |-> [copy.heap EXCEPT ![transformed] = t6],
                  ref |-> transformed]
        ELSE [heap |-> heap, ref |-> tool]

\* transformToolsArray maps transformSimplifiedTool over the entries: the
\* call for the entry at reference 1
TransformEntry ==
    /\ transform.out = {}
    /\ LET r == TransformSimplifiedTool(transform.heap, 1)
       IN  transform' = [transform EXCEPT !.heap = r.heap, !.out = {r.ref}]
    /\ UNCHANGED <<now, manifest, windows, stats, pc, call, result, attempts,
                   sleeps, admitted, recorded, rlLog, setup, request, server,
                   manifestFile, jobs, monitor, stream>>

\* transformSimplifiedTool is applied to what it returned
TransformAgain ==
    /\ transform.out # {}
    /\ transform.again = {}
    /\ LET r == TransformSimplifiedTool(transform.heap, Val(transform.out))
       IN  transform' = [transform EXCEPT
                           !.heap = r.heap, !.again = {r.ref},
                           !.outBefore = {transform.heap[Val(transform.out)]}]
    /\ UNCHANGED <<now, manifest, windows, stats, pc, call, result, attempts,
                   sleeps, admitted, recorded, rlLog, setup, request, server,
                   manifestFile, jobs, monitor, stream>>

----------------------------------------------------------------------------
(* What fetch() can produce *)

Statuses == {200, 404, 503}
ContentTypes == {{}, {"application/json"}, {"text/event-stream"}}
\* body texts: a JSON object, the JSON text {"binary":true,"contentType":
\* "image/png","data":"Zm9v"}, a text that is not JSON, a body whose read fails
Bodies == {"json", "envelope", "text", "unreadable"}

IsJsonText(body) == body \in {"json", "envelope"}

\* the values of responseData: null, the string response.text() resolves to,
\* the object response.json() resolves to
Null == [type |-> "null", of |-> ""]
TextOf(body) == [type |-> "string", of |-> body]
JsonOf(body) == [type |-> "object", of |-> body]

Responses == [status : Statuses, contentType : ContentTypes, body : Bodies]

Ok(response) == response.status >= 200 /\ response.status <= 299

\* errors fetch() rejects with; none of them carries a response
FetchErrors ==
    {[name |-> "Error", code |-> {c}, response |-> {}, message |-> c] :
         c \in {"ECONNRESET", "ENOTFOUND", "ETIMEDOUT"}}
    \cup {[name |-> "TypeError", code |-> {}, response |-> {},
           message |-> "fetch failed"]}

InvalidUrlError == [name |-> "TypeError", code |-> {}, response |-> {},
                    message |-> "Invalid URL"]

AbortError == [name |-> "AbortError", code |-> {}, response |-> {},
               message |-> "This operation was aborted"]

SyntaxError == [name |-> "SyntaxError", code |-> {}, response |-> {},
                message |-> "Unexpected token"]

BodyError == [name |-> "TypeError", code |-> {}, response |-> {},
              message |-> "terminated"]

IsRetryableError(error) ==
    \/ error.name = "AbortError"
    \/ error.code = {"ECONNRESET"}
    \/ error.code = {"ENOTFOUND"}
    \/ error.code = {"ETIMEDOUT"}
    \/ (error.response # {} /\ Val(error.response).status >= 500)

\* const delay = retryDelay * Math.pow(2, attempt - 1)
BackoffDelay(retryDelay, attempt) == retryDelay * Pow2(attempt - 1)

\* mutant: one retry too many
ShouldRetryOffByOne(attempt, maxRetries, error) ==
    attempt <= maxRetries /\ IsRetryableError(error)

\* attempt < maxRetries && isRetryableError(error)
ShouldRetry(attempt, maxRetries, error) ==
    attempt < maxRetries /\ IsRetryableError(error)

----------------------------------------------------------------------------
(* The ExecutionResult shapes executeTool returns *)

RateLimitedResult(toolName, status, t) ==
    [success |-> FALSE, error |-> "Rate limit exceeded", status |-> 429,
     tool |-> toolName, timestamp |-> t, rateLimit |-> status]

HttpErrorResult(toolName, response, errorData, t) ==
    [success |-> FALSE, error |-> "HTTP", status |-> response.status,
     details |-> errorData, tool |-> toolName, timestamp |-> t]

StreamResult(response) ==
    [success |-> TRUE, stream |-> response.body, status |-> response.status,
     contentType |-> Val(response.contentType)]

DataResult(toolName, response, responseData, t, startTime) ==
    [success |-> TRUE, data |-> responseData, status |-> response.status,
     tool |-> toolName, timestamp |-> t, responseTime |-> t - startTime]

\* mutant: every caught error is reported as a generic 500
FailureResultAlways500(toolName, error, t) ==
    [success |-> FALSE, error |-> error.message, status |-> 500,
     tool |-> toolName, timestamp |-> t, errorType |-> error.name,
     data |-> Null]

FailureResult(toolName, error, t) ==
    [success |-> FALSE, error |-> error.message,
     status |-> IF error.name = "AbortError" THEN 408 ELSE 500,
     tool |-> toolName, timestamp |-> t, errorType |-> error.name,
     data |-> Null]

NoResult == [none |-> TRUE]

IdleCall == [tool |-> "", startTime |-> 0, attempt |-> 0, since |-> 0,
             timer |-> 0, response |-> {}, error |-> {},
             debug |-> FALSE, console |-> <<>>]

\* contentType.includes(...) for the streaming content types
IsStreamResponse(response) ==
    response.contentType = {"text/event-stream"}

IsJsonResponse(response) ==
    response.contentType = {"application/json"}

\* responseData of a 2xx response that is not streamed: response.json() when
\* the content type says JSON, response.text() otherwise
ResponseData(response) ==
    IF IsJsonResponse(response) THEN JsonOf(response.body)
    ELSE TextOf(response.body)

\* errorData of a non-2xx response: response.json(), else response.text(),
\* else the placeholder; the body can be read once, so text() after a
\* failed json() always throws
ErrorData(response) ==
    IF IsJsonText(response.body) THEN JsonOf(response.body)
    ELSE TextOf("Could not parse error response body.")

----------------------------------------------------------------------------
(* executeTool *)

\* if (DEBUG) console.log(...): what the call has written to the console
\* after these lines
Logged(c, lines) ==
    IF call[c].debug THEN call[c].console \o lines ELSE call[c].console

\* the [DEBUG] lines of rateLimiter.isAllowed
RateLimitLines(tool, allowed) ==
    IF tool.rateLimit = {} THEN <<>>
    ELSE IF allowed THEN <<"Rate limit check">>
    ELSE <<"Rate limit exceeded">>

\* the [DEBUG] line of the external auth override
AuthFromLines(toolName) ==
    LET authFrom == setup.authFrom[toolName]
    IN  IF authFrom # {} /\ Val(authFrom).user # "" /\ toolName # ""
        THEN IF LoadSecretAuth(Val(authFrom).user, toolName) # {}
             THEN <<"Loaded auth">>
             ELSE <<"No external auth found">>
        ELSE <<>>

\* the [DEBUG] line of the environment variable override
FromEnvLines(fromEnv) ==
    IF Truthy(fromEnv)
    THEN IF Truthy(ProcessEnv(Val(fromEnv)))
         THEN <<"Using value from env var">>
         ELSE <<"Environment variable not found">>
    ELSE <<>>

\* the [DEBUG] lines of if (auth) { switch (auth.type) ... }
AuthLines(auth) ==
    IF auth = {} THEN <<>>
    ELSE <<"Processing auth type">> \o
         (IF Val(auth).type = "header"
          THEN IF Truthy(Val(auth).name)
               THEN FromEnvLines(Val(auth).valueFromEnv) \o
                    (IF AuthValue(auth) # {} THEN <<"Set header">>
                     ELSE <<"Auth type 'header' has no valid value">>)
               ELSE <<"Auth type 'header' is missing auth.name">>
          ELSE IF Val(auth).type = "jwt"
          THEN FromEnvLines(Val(auth).tokenFromEnv) \o
               (IF Truthy(JwtToken(auth)) THEN <<"Set Authorization header">>
                ELSE <<"Auth type 'jwt' has no valid token">>)
          ELSE <<"Unknown auth type">>)

\* the [DEBUG] lines of the catch block of executeTool
CatchLines(error) ==
    <<"Error executing tool">> \o
    (IF Truthy(error.code) THEN <<"Error Code">> ELSE <<>>)

\* executeWithRetry(attempt): arm the timeout and issue the fetch, for a
\* call with this DEBUG option and these lines on the console
BeginAttemptLogged(c, toolName, startTime, attempt, DEBUG, console) ==
    /\ pc' = [pc EXCEPT ![c] = "fetching"]
    /\ call' = [call EXCEPT ![c] =
                  [tool |-> toolName, startTime |-> startTime,
                   attempt |-> attempt, since |-> now,
                   timer |-> now + Timeout(manifest[toolName]),
                   response |-> {}, error |-> {},
                   debug |-> DEBUG, console |-> console]]
    /\ attempts' = [attempts EXCEPT ![c] = @ + 1]

\* executeWithRetry(attempt)
BeginAttempt(c, toolName, startTime, attempt) ==
    BeginAttemptLogged(c, toolName, startTime, attempt,
                       call[c].debug, call[c].console)

\* return result, through healthMonitor.recordExecution when record is TRUE
Return(c, res, record) ==
    /\ pc' = [pc EXCEPT ![c] = "returned"]
    /\ result' = [result EXCEPT ![c] = res]
    /\ stats' = IF record THEN RecordExecution(stats, res.tool, res) ELSE stats
    /\ recorded' = [recorded EXCEPT ![c] = IF record THEN @ + 1 ELSE @]

\* the catch block of executeTool
Fail(c, error) ==
    /\ Return(c, FailureResult(call[c].tool, error, now), TRUE)
    /\ call' = [call EXCEPT ![c].response = {}, ![c].error = {error},
                            ![c].console = Logged(c, CatchLines(error))]

\* the catch block of executeWithRetry
OnAttemptError(c, error) ==
    LET tool == manifest[call[c].tool]
        attempt == call[c].attempt
        delay == BackoffDelay(RetryDelay(tool), attempt)
    IN  IF ShouldRetry(attempt, MaxRetries(tool), error)
        THEN /\ pc' = [pc EXCEPT ![c] = "sleeping"]
             /\ call' = [call EXCEPT ![c].since = now, ![c].timer = now + delay,
                                     ![c].error = {error},
                                     ![c].console =
                                         Logged(c, <<"Attempt failed, retrying">>)]
             /\ sleeps' = [sleeps EXCEPT ![c] = Append(@, delay)]
             /\ UNCHANGED <<result, stats, recorded>>
        ELSE /\ Fail(c, error)
             /\ UNCHANGED sleeps

\* mutant: the answer of isAllowed is ignored
RateLimitedNever(tool, allowed) == FALSE

\* if (toolConfig.rateLimit) { if (!rateLimiter.isAllowed(...)) return 429 }
RateLimited(tool, allowed) == tool.rateLimit # {} /\ ~allowed

\* the [DEBUG] lines executeTool writes before its first await, or before
\* it returns 429 or new URL throws
SetupLines(toolName, tool, args, allowed) ==
    <<"Executing tool", "Target URL", "Request Payload">> \o
    RateLimitLines(tool, allowed) \o
    (IF RateLimited(tool, allowed) THEN <<>>
     ELSE AuthFromLines(toolName) \o
          (IF UrlConstructionThrows(tool, args) THEN <<>>
           ELSE (IF Method(tool) = "GET" /\ args = "object"
                 THEN <<"GET URL with params">> ELSE <<>>) \o
                AuthLines(EffectiveAuth(toolName)) \o
                <<"Final Forwarding Headers", "Method">>))

\* executeTool(toolConfig, requestPayload, originalHeaders, { DEBUG }) is
\* called: everything up to its first await
ExecuteTool(c, toolName, args, originalHeaders, DEBUG) ==
    /\ pc[c] = "idle"
    /\ \A d \in 1..(c - 1) : pc[d] # "idle"     \* calls are numbered as they start
    /\ LET tool == manifest[toolName]
           rl == IsAllowed(windows, toolName, tool.rateLimit, now)
           limited == RateLimited(tool, rl.allowed)
           console == IF DEBUG
                      THEN SetupLines(toolName, tool, args, rl.allowed)
                      ELSE <<>>
       IN  /\ windows' = IF tool.rateLimit # {} THEN rl.windows ELSE windows
           /\ admitted' = IF tool.rateLimit # {} /\ rl.allowed
                          THEN [admitted EXCEPT ![toolName] = Append(@, now)]
                          ELSE admitted
           /\ IF limited
              THEN /\ Return(c, RateLimitedResult(toolName,
                                  GetStatus(windows', toolName, tool.rateLimit, now),
                                  now), FALSE)
                   /\ call' = [call EXCEPT ![c].tool = toolName,
                                           ![c].startTime = now,
                                           ![c].debug = DEBUG,
                                           ![c].console = console]
                   /\ UNCHANGED attempts
              ELSE IF UrlConstructionThrows(tool, args)
              THEN /\ pc' = [pc EXCEPT ![c] = "raised"]
                   /\ call' = [call EXCEPT ![c].tool = toolName,
                                           ![c].startTime = now,
                                           ![c].debug = DEBUG,
                                           ![c].console = console]
                   /\ UNCHANGED <<result, stats, recorded, attempts>>
              ELSE /\ BeginAttemptLogged(c, toolName, now, 1, DEBUG, console)
                   /\ UNCHANGED <<result, stats, recorded>>
           /\ request' = IF limited \/ UrlConstructionThrows(tool, args)
                         THEN request
                         ELSE [request EXCEPT ![c] =
                                 {OutboundRequest(toolName, tool, args,
                                                  originalHeaders)}]
    /\ UNCHANGED <<now, manifest, sleeps, rlLog, setup, manifestFile,
                   transform, monitor, stream>>

\* executeTool called without the DEBUG option
StartCall(c, toolName, args, originalHeaders) ==
    ExecuteTool(c, toolName, args, originalHeaders, FALSE)

\* fetch resolves with a response
FetchResponds(c, response) ==
    /\ pc[c] = "fetching"
    /\ manifest[call[c].tool].urlValid
    /\ IF ~Ok(response)
       THEN /\ pc' = [pc EXCEPT ![c] = "readingError"]
            /\ call' = [call EXCEPT ![c].response = {response}]
            /\ UNCHANGED <<result, stats, recorded>>
       ELSE IF IsStreamResponse(response)
       THEN /\ Return(c, StreamResult(response), FALSE)
            /\ call' = [call EXCEPT
                          ![c].console =
                              Logged(c, <<"Detected streaming response">>)]
       ELSE /\ pc' = [pc EXCEPT ![c] = "readingData"]
            /\ call' = [call EXCEPT ![c].response = {response}]
            /\ UNCHANGED <<result, stats, recorded>>
    /\ UNCHANGED <<now, manifest, windows, attempts, sleeps, admitted, rlLog, setup, request, server, manifestFile,
                   transform, jobs, monitor, stream>>

\* fetch rejects: a network error, or the url does not parse
FetchFails(c, error) ==
    /\ pc[c] = "fetching"
    /\ IF manifest[call[c].tool].urlValid
       THEN error \in FetchErrors
       ELSE error = InvalidUrlError
    /\ OnAttemptError(c, error)
    /\ UNCHANGED <<now, manifest, windows, attempts, admitted, rlLog, setup, request, server, manifestFile,
                   transform, jobs, monitor, stream>>

\* the attempt's timeout fires: controller.abort()
FetchAborts(c) ==
    /\ pc[c] = "fetching"
    /\ manifest[call[c].tool].urlValid
    /\ now >= call[c].timer
    /\ OnAttemptError(c, AbortError)
    /\ UNCHANGED <<now, manifest, windows, attempts, admitted, rlLog, setup, request, server, manifestFile,
                   transform, jobs, monitor, stream>>

\* the backoff sleep is over: executeWithRetry(attempt + 1)
Wake(c) ==
    /\ pc[c] = "sleeping"
    /\ now >= call[c].timer
    /\ BeginAttempt(c, call[c].tool, call[c].startTime, call[c].attempt + 1)
    /\ UNCHANGED <<now, manifest, windows, stats, result, sleeps, admitted,
                   recorded, rlLog, setup, request, server, manifestFile,
                   transform, jobs, monitor, stream>>

\* the body of a non-2xx response has been read
ReadErrorBody(c) ==
    /\ pc[c] = "readingError"
    /\ LET response == Val(call[c].response)
       IN  Return(c, HttpErrorResult(call[c].tool, response,
                                     ErrorData(response), now), FALSE)
    /\ call' = [call EXCEPT ![c].response = {},
                            ![c].console =
                                Logged(c, <<"Tool execution error",
                                            "Error Response Data">>)]
    /\ UNCHANGED <<now, manifest, windows, attempts, sleeps, admitted, rlLog, setup, request, server, manifestFile,
                   transform, jobs, monitor, stream>>

\* the body of a 2xx response has been read: response.json() or response.text()
ReadDataBody(c) ==
    /\ pc[c] = "readingData"
    /\ LET response == Val(call[c].response)
       IN  IF response.body = "unreadable"
           THEN Fail(c, BodyError)
           ELSE IF IsJsonResponse(response) /\ ~IsJsonText(response.body)
           THEN Fail(c, SyntaxError)
           ELSE /\ Return(c, DataResult(call[c].tool, response,
                                        ResponseData(response),
                                        now, call[c].startTime), TRUE)
                /\ call' = [call EXCEPT
                              ![c].response = {},
                              ![c].console =
                                  Logged(c, <<"Tool execution response",
                                              "Response Data">>)]
    /\ UNCHANGED <<now, manifest, windows, attempts, sleeps, admitted, rlLog, setup, request, server, manifestFile,
                   transform, jobs, monitor, stream>>

----------------------------------------------------------------------------
(* The initial values of setup and server *)

\* no tool has auth, authFrom or async, no secret file, an empty environment
NoSetup == [auth |-> [n \in Names |-> {}],
            authFrom |-> [n \in Names |-> {}],
            secrets |-> [u \in Users |-> [n \in Names |-> {}]],
            env |-> [v \in EnvVars |-> {}],
            async |-> [n \in Names |-> FALSE],
            replay |-> {}]

\* no MCP server has been constructed
NoServer == [tools |-> <<>>, constructed |-> "no", validatedTools |-> <<>>,
             listed |-> {}, validations |-> <<>>]

\* no entry has been given to transformSimplifiedTool
NoTransform == [heap |-> <<>>, given |-> {}, out |-> {}, again |-> {},
                outBefore |-> {}]

\* the job store is empty
NoJobs == <<>>

\* what the last call of the rate limiter or of the health monitor from
\* outside has returned: nothing
NoReturn == [allowed |-> {}, status |-> {}, health |-> {}]

\* no health check has been performed, recordExecution and clearStats have
\* not been called from outside, no query has returned
NoMonitor == [probe |-> {}, checks |-> <<>>,
              direct |-> [n \in StoreNames |-> 0],
              cleared |-> [n \in StoreNames |-> 0],
              returned |-> NoReturn]

\* no streaming result has been formatted
NoStream == [phase |-> "none", buffered |-> FALSE, arrived |-> <<>>,
             pending |-> FALSE, yielded |-> <<>>, chunks |-> <<>>,
             failed |-> FALSE, response |-> {}]

\* no manifest read, no entry transformed, no job, no probe, no stream
InitRest ==
    /\ manifestFile = NoManifestFile
    /\ transform = NoTransform
    /\ jobs = NoJobs
    /\ monitor = NoMonitor
    /\ stream = NoStream

----------------------------------------------------------------------------
(* The MCP server: tool registration, listing and the call handlers        *)

\* how executeTool reads the fields of a tool object that passed validateTool
Canonical(t) ==
    [method |-> IF t.method.kind = "string" THEN {t.method.str} ELSE {},
     urlValid |-> t.url = Str("http://host/hook"),
     rateLimit |-> IF t.rateLimit.kind = "object"
                   THEN {[requests |-> t.rateLimit.requests,
                          window |-> t.rateLimit.window]}
                   ELSE {},
     maxRetries |-> IF t.maxRetries.kind = "number"
                    THEN {t.maxRetries.num} ELSE {},
     retryDelay |-> IF t.retryDelay.kind = "number"
                    THEN {t.retryDelay.num} ELSE {},
     timeout |-> IF t.timeout.kind = "number" THEN {t.timeout.num} ELSE {}]

\* toolConfig.auth and toolConfig.authFrom of that tool object
SetupOf(t) ==
    [NoSetup EXCEPT
       !.auth = [n \in Names |->
                    IF t.auth.kind = "object" THEN {t.auth.obj} ELSE {}],
       !.authFrom = [n \in Names |->
                        IF t.authFrom.kind = "object"
                        THEN {[user |-> t.authFrom.str]} ELSE {}]]

\* tools.find(t => t.name === toolName)
FindTool(tools, toolName) ==
    LET named == SelectSeq(tools, LAMBDA t : t.name = Str(toolName))
    IN  IF named = <<>> THEN {} ELSE {named[1]}

\* the validateTool calls a filter over tools makes: it stops at a throw
FilterValidations(tools) ==
    LET threw(i) == ValidateTool(tools[i], FALSE).kind # "return"
        reached == {i \in DOMAIN tools : \A j \in 1..(i - 1) : ~threw(j)}
    IN  [i \in 1..Cardinality(reached) |->
            [tool |-> tools[i], throwOnError |-> FALSE,
             outcome |-> ValidateTool(tools[i], FALSE)]]

FilterThrows(tools) ==
    \E i \in DOMAIN tools : ValidateTool(tools[i], FALSE).kind # "return"

\* toolsConfig.tools.filter(tool => validateTool(tool, false, DEBUG))
CacheValidatedTools(tools) ==
    SelectSeq(tools, LAMBDA t : ValidateTool(t, FALSE) = Returns(TRUE))

\* new WyreupMcpServer(toolsConfig): registers a handler per validated tool
Construct ==
    /\ server.constructed = "no"
    /\ server' = [server EXCEPT
                    !.constructed = IF FilterThrows(server.tools)
                                    THEN "crashed" ELSE "yes",
                    !.validatedTools = IF FilterThrows(server.tools)
                                       THEN <<>>
                                       ELSE CacheValidatedTools(server.tools),
                    !.validations = @ \o FilterValidations(server.tools)]
    /\ UNCHANGED <<now, manifest, windows, stats, pc, call, result, attempts,
                   sleeps, admitted, recorded, rlLog, setup, request, manifestFile,
                   transform, jobs, monitor, stream>>

\* the handler registered for a validated tool is called
CallRegistered(c, toolName, args) ==
    /\ server.constructed = "yes"
    /\ FindTool(server.validatedTools, toolName) # {}
    /\ StartCall(c, toolName, args, <<>>)
    /\ UNCHANGED <<server, jobs>>

\* the ListToolsRequestSchema handler
ListTools ==
    /\ server.listed = {}
    /\ server' = [server EXCEPT
                    !.listed = {IF FilterThrows(server.tools)
                                THEN [ok |-> FALSE, tools |-> <<>>]
                                ELSE [ok |-> TRUE,
                                      tools |->
                                          CacheValidatedTools(server.tools)]},
                    !.validations = @ \o FilterValidations(server.tools)]
    /\ UNCHANGED <<now, manifest, windows, stats, pc, call, result, attempts,
                   sleeps, admitted, recorded, rlLog, setup, request, manifestFile,
                   transform, jobs, monitor, stream>>

\* the CallToolRequestSchema handler: find the tool, validateTool(tool, true),
\* then executeTool
CallTool(c, toolName, args) ==
    LET found == FindTool(server.tools, toolName)
        outcome == ValidateTool(Val(found), TRUE)
    IN  IF found # {} /\ outcome = Returns(TRUE)
        THEN /\ StartCall(c, toolName, args, <<>>)
             /\ server' = [server EXCEPT
                             !.validations =
                                 Append(@, [tool |-> Val(found),
                                            throwOnError |-> TRUE,
                                            outcome |-> outcome])]
             /\ UNCHANGED jobs
        ELSE /\ pc[c] = "idle"
             /\ \A d \in 1..(c - 1) : pc[d] # "idle"
             /\ pc' = [pc EXCEPT ![c] = "rejected"]
             /\ server' = IF found = {} THEN server
                          ELSE [server EXCEPT
                                  !.validations =
                                      Append(@, [tool |-> Val(found),
                                                 throwOnError |-> TRUE,
                                                 outcome |-> outcome])]
             /\ UNCHANGED <<now, manifest, windows, stats, call, result,
                            attempts, sleeps, admitted, recorded, rlLog,
                            setup, request, manifestFile,
                   transform, jobs, monitor, stream>>

----------------------------------------------------------------------------
(* Asynchronous jobs: the POST /tools/:toolName handler, createJob and     *)
(* executeToolAndCallback                                                  *)
(*                                                                         *)
(* jobs is the store in creation order; a job id is a position in it.      *)
(* Next to the fields of the code a job carries `call`, the executeTool    *)
(* call run for it, `phase`, where executeToolAndCallback is suspended,    *)
(* `timer`, when its abort timer fires, and `posts`, a history of the      *)
(* requests made to callbackUrl.                                           *)

MaxPosts == 1           \* requests to POST /tools/:toolName

CallbackTimeout == 30000

\* createJob(toolName, requestBody, callbackUrl, originalHeaders, appBaseUrl)
CreateJob(toolName, callbackUrl) ==
    [toolName |-> toolName, timestamp |-> now, status |-> "pending",
     callback_url |-> callbackUrl, result |-> {}, error |-> {},
     call |-> {}, phase |-> "created", timer |-> 0, posts |-> 0]

\* the handler of POST /tools/:toolName, once the request body has arrived:
\* a job for an async tool or a request with callback_url, executed in the
\* background only when there is a callback_url; executeTool otherwise
PostTool(toolName, args, callbackUrl) ==
    /\ Cardinality({c \in Calls : pc[c] # "idle"})
         + Cardinality({j \in DOMAIN jobs : jobs[j].call = {}}) < MaxPosts
    /\ IF setup.async[toolName] \/ Truthy(callbackUrl)
       THEN IF Truthy(callbackUrl)
            THEN \E c \in Calls :
                    /\ StartCall(c, toolName, args, <<>>)
                    /\ jobs' = Append(jobs,
                                 [CreateJob(toolName, callbackUrl) EXCEPT
                                    !.status = "processing",
                                    !.call = {c}, !.phase = "executing"])
            ELSE /\ jobs' = Append(jobs, CreateJob(toolName, callbackUrl))
                 /\ UNCHANGED <<now, manifest, windows, stats, pc, call,
                                result, attempts, sleeps, admitted, recorded,
                                rlLog, setup, request, manifestFile,
                                transform, monitor, stream>>
       ELSE /\ \E c \in Calls : StartCall(c, toolName, args, <<>>)
            /\ UNCHANGED jobs
    /\ UNCHANGED server

\* a step of executeToolAndCallback that only writes to its job
JobStep(j, job) ==
    /\ jobs' = [jobs EXCEPT ![j] = job]
    /\ UNCHANGED <<now, manifest, windows, stats, pc, call, result, attempts,
                   sleeps, admitted, recorded, rlLog, setup, request, server,
                   manifestFile, transform, monitor, stream>>

\* executeTool has returned: the outcome is stored in the job and the
\* callback request is issued
RecordOutcome(j) ==
    /\ j \in DOMAIN jobs
    /\ jobs[j].phase = "executing"
    /\ pc[Val(jobs[j].call)] = "returned"
    /\ LET executionResult == result[Val(jobs[j].call)]
       IN  JobStep(j, [jobs[j] EXCEPT
                 !.status = IF executionResult.success THEN "completed"
                            ELSE "failed",
                 !.result = IF executionResult.success
                            THEN Get(executionResult, "data") ELSE @,
                 !.error = IF executionResult.success THEN @
                           ELSE {[message |-> Get(executionResult, "error"),
                                  status_code |-> Get(executionResult, "status"),
                                  details |-> Get(executionResult, "data"),
                                  callback_error |-> {}]},
                 !.timestamp = now,
                 !.phase = "posting",
                 !.timer = now + CallbackTimeout,
                 !.posts = @ + 1])

\* executeTool has raised: executeToolAndCallback rejects, the handler's
\* .catch logs the error
JobRejects(j) ==
    /\ j \in DOMAIN jobs
    /\ jobs[j].phase = "executing"
    /\ pc[Val(jobs[j].call)] = "raised"
    /\ JobStep(j, [jobs[j] EXCEPT !.phase = "rejected"])

\* mutant: job.error = { callback_error: callbackError.message }
CallbackFailedOverwrites(j, message) ==
    JobStep(j, [jobs[j] EXCEPT
                  !.status = "callback_failed",
                  !.error = {[message |-> {}, status_code |-> {},
                              details |-> {}, callback_error |-> {message}]},
                  !.timestamp = now,
                  !.phase = "ended"])

\* mutant: a failed delivery marks the job failed
CallbackFailedMarksFailed(j, message) ==
    JobStep(j, [jobs[j] EXCEPT
                  !.status = "failed",
                  !.error = {[(IF @ = {}
                               THEN [message |-> {}, status_code |-> {},
                                     details |-> {}, callback_error |-> {}]
                               ELSE Val(@))
                              EXCEPT !.callback_error = {message}]},
                  !.timestamp = now,
                  !.phase = "ended"])

\* the catch block of the callback delivery
CallbackFailed(j, message) ==
    JobStep(j, [jobs[j] EXCEPT
                  !.status = "callback_failed",
                  !.error = {[(IF @ = {}
                               THEN [message |-> {}, status_code |-> {},
                                     details |-> {}, callback_error |-> {}]
                               ELSE Val(@))
                              EXCEPT !.callback_error = {message}]},
                  !.timestamp = now,
                  !.phase = "ended"])

\* the callback fetch resolves with a response
CallbackResponds(j, ok) ==
    /\ j \in DOMAIN jobs
    /\ jobs[j].phase = "posting"
    /\ JobStep(j, [jobs[j] EXCEPT !.phase = IF ok THEN "ended"
                                            ELSE "readingBody"])

\* the body of a non-2xx callback response has been read, or could not be
CallbackBodyRead(j) ==
    /\ j \in DOMAIN jobs
    /\ jobs[j].phase = "readingBody"
    /\ CallbackFailed(j, "Callback request failed")

\* the callback fetch rejects
CallbackRejects(j) ==
    /\ j \in DOMAIN jobs
    /\ jobs[j].phase = "posting"
    /\ CallbackFailed(j, "fetch failed")

\* the 30 second timer fires: controller.abort()
CallbackAborts(j) ==
    /\ j \in DOMAIN jobs
    /\ jobs[j].phase = "posting"
    /\ now >= jobs[j].timer
    /\ CallbackFailed(j, "This operation was aborted")

----------------------------------------------------------------------------
(* HealthMonitor.performHealthCheck                                        *)
(*                                                                         *)
(* monitor.probe is the health check in flight, monitor.checks the         *)
(* results returned so far.                                                *)

MaxProbes == 1          \* health checks performed

HealthCheckTimeout == 5000

\* performHealthCheck(toolConfig) up to its await: the HEAD request is sent
PerformHealthCheck(toolName) ==
    /\ monitor.probe = {}
    /\ Len(monitor.checks) < MaxProbes
    /\ monitor' = [monitor EXCEPT
                     !.probe = {[tool |-> toolName, startTime |-> now,
                                 timer |-> now + HealthCheckTimeout]}]
    /\ UNCHANGED <<now, manifest, windows, stats, pc, call, result, attempts,
                   sleeps, admitted, recorded, rlLog, setup, request, server,
                   manifestFile, transform, jobs, stream>>

\* mutant: the probe is recorded like an execution
ProbeReturnsRecorded(healthCheck) ==
    /\ monitor' = [monitor EXCEPT !.probe = {},
                                  !.checks = Append(@, healthCheck)]
    /\ stats' = RecordExecution(stats, healthCheck.tool,
                                [success |-> healthCheck.healthy,
                                 timestamp |-> healthCheck.timestamp,
                                 responseTime |-> healthCheck.responseTime])
    /\ UNCHANGED <<now, manifest, windows, pc, call, result, attempts,
                   sleeps, admitted, recorded, rlLog, setup, request, server,
                   manifestFile, transform, jobs, stream>>

\* performHealthCheck returns its result
ProbeReturns(healthCheck) ==
    /\ monitor' = [monitor EXCEPT !.probe = {},
                                  !.checks = Append(@, healthCheck)]
    /\ UNCHANGED <<now, manifest, windows, stats, pc, call, result, attempts,
                   sleeps, admitted, recorded, rlLog, setup, request, server,
                   manifestFile, transform, jobs, stream>>

\* the HEAD request is answered
ProbeResponds(status) ==
    /\ monitor.probe # {}
    /\ ProbeReturns([tool |-> Val(monitor.probe).tool,
                     healthy |-> status < 400,
                     status |-> {status}, error |-> {},
                     responseTime |-> now - Val(monitor.probe).startTime,
                     timestamp |-> now])

\* the HEAD request fails, or is aborted after 5 seconds
ProbeFails(error) ==
    /\ monitor.probe # {}
    /\ error = AbortError => now >= Val(monitor.probe).timer
    /\ ProbeReturns([tool |-> Val(monitor.probe).tool,
                     healthy |-> FALSE,
                     status |-> {}, error |-> {error.message},
                     responseTime |-> now - Val(monitor.probe).startTime,
                     timestamp |-> now])

----------------------------------------------------------------------------
(* Streaming results: formatToolResponse, createStreamingGenerator and     *)
(* bufferStreamingResponse                                                 *)
(*                                                                         *)
(* A byte chunk is a sequence of bytes: "a" is a one-byte character, "L"   *)
(* the lead byte and "T" the trail byte of a two-byte character. A text is *)
(* a sequence of characters and of message strings.                        *)

MaxChunks == 2          \* byte chunks one stream delivers
MaxChunkLen == 2        \* bytes in one chunk

Bytes == {"a", "L", "T"}

Marker == <<"[STREAMED RESPONSE] ">>

\* decoder.decode(value, { stream: true }): a lead byte at the end of the
\* chunk is kept for the next call; a lead byte not followed by a trail
\* byte, and a trail byte on its own, become the replacement character
RECURSIVE Decode(_, _)
Decode(pending, value) ==
    IF value = <<>> THEN [text |-> <<>>, pending |-> pending]
    ELSE LET b == Head(value)
             rest == Tail(value)
         IN  IF pending
             THEN IF b = "T"
                  THEN LET d == Decode(FALSE, rest)
                       IN  [d EXCEPT !.text = <<"LT">> \o @]
                  ELSE LET d == Decode(FALSE, value)
                       IN  [d EXCEPT !.text = <<"?">> \o @]
             ELSE IF b = "L" THEN Decode(TRUE, rest)
             ELSE LET d == Decode(FALSE, rest)
                  IN  [d EXCEPT !.text = <<IF b = "a" THEN "a" ELSE "?">> \o @]

\* chunks.join('')
RECURSIVE Join(_)
Join(chunks) ==
    IF chunks = <<>> THEN <<>> ELSE Head(chunks) \o Join(Tail(chunks))

\* for await (const chunk of generator): a chunk whose text is not empty is
\* pushed
Buffered(chunks, text) ==
    IF stream.buffered /\ text # <<>> THEN Append(chunks, text) ELSE chunks

\* return { content: [{ type: 'text', text: `[STREAMED RESPONSE] ${fullText}` }] }
BufferedResponse(chunks) ==
    IF stream.buffered
    THEN {[text |-> Marker \o Join(chunks), isError |-> FALSE]}
    ELSE {}

\* formatToolResponse(result, toolName) of a streaming result returns the
\* generator; the CallTool handler hands it to bufferStreamingResponse, the
\* tool registered with the SDK returns it as it is
FormatToolResponse(res, buffered) ==
    /\ stream.phase = "none"
    /\ res.success
    /\ "stream" \in DOMAIN res
    /\ stream' = [stream EXCEPT !.phase = "reading", !.buffered = buffered]
    /\ UNCHANGED <<now, manifest, windows, stats, pc, call, result, attempts,
                   sleeps, admitted, recorded, rlLog, setup, request, server,
                   manifestFile, transform, jobs, monitor>>

\* reader.read() resolves to { done: false, value }: the text is yielded
ReadChunk(value) ==
    /\ stream.phase = "reading"
    /\ Len(stream.arrived) < MaxChunks
    /\ LET d == Decode(stream.pending, value)
       IN  stream' = [stream EXCEPT
                        !.arrived = Append(@, value),
                        !.pending = d.pending,
                        !.yielded = Append(@, [text |-> d.text,
                                               isError |-> FALSE]),
                        !.chunks = Buffered(@, d.text)]
    /\ UNCHANGED <<now, manifest, windows, stats, pc, call, result, attempts,
                   sleeps, admitted, recorded, rlLog, setup, request, server,
                   manifestFile, transform, jobs, monitor>>

\* reader.read() resolves to { done: true }: the generator returns
ReadDone ==
    /\ stream.phase = "reading"
    /\ stream' = [stream EXCEPT
                    !.phase = "done",
                    !.response = BufferedResponse(stream.chunks)]
    /\ UNCHANGED <<now, manifest, windows, stats, pc, call, result, attempts,
                   sleeps, admitted, recorded, rlLog, setup, request, server,
                   manifestFile, transform, jobs, monitor>>

\* reader.read() rejects: the catch block yields the failure as one more
\* chunk, marked isError, and the generator returns
ReadFails(error) ==
    /\ stream.phase = "reading"
    /\ LET text == <<"Stream reading failed: ", error.message>>
           chunks == Buffered(stream.chunks, text)
       IN  stream' = [stream EXCEPT
                        !.phase = "done",
                        !.failed = TRUE,
                        !.yielded = Append(@, [text |-> text,
                                               isError |-> TRUE]),
                        !.chunks = chunks,
                        !.response = BufferedResponse(chunks)]
    /\ UNCHANGED <<now, manifest, windows, stats, pc, call, result, attempts,
                   sleeps, admitted, recorded, rlLog, setup, request, server,
                   manifestFile, transform, jobs, monitor>>

----------------------------------------------------------------------------
(* RateLimiter and HealthMonitor called from outside executeTool: the       *)
(* status queries, the clears, and recordExecution itself                  *)

MaxDirect == 2          \* recordExecution calls made from outside executeTool

\* Map.delete
MapDelete(m, k) ==
    IF DOMAIN m \ {k} = {} THEN <<>>
    ELSE [x \in DOMAIN m \ {k} |-> m[x]]

\* Math.round(successRate * 100) / 100, in hundredths of a percent
SuccessRate(st) ==
    IF st.total > 0
    THEN (2 * 10000 * st.success + st.total) \div (2 * st.total)
    ELSE 0

\* Math.round(stats.avgResponseTime)
Round(ratio) == (2 * ratio[1] + ratio[2]) \div (2 * ratio[2])

\* getHealth(toolName)
GetHealth(st, toolName) ==
    IF toolName \notin DOMAIN st
    THEN [status |-> "unknown", successRate |-> 0, totalRequests |-> 0,
          avgResponseTime |-> 0, lastSuccess |-> {}, lastError |-> {}]
    ELSE LET s == st[toolName]
             successRate == SuccessRate(s)
         IN  [status |-> IF successRate < 5000 THEN "critical"
                         ELSE IF successRate < 8000 THEN "degraded"
                         ELSE "healthy",
              successRate |-> successRate,
              totalRequests |-> s.total,
              successfulRequests |-> s.success,
              errorRequests |-> s.errors,
              avgResponseTime |-> Round(s.avgResponseTime),
              lastSuccess |-> s.lastSuccess,
              lastError |-> s.lastError,
              errorTypes |-> s.errorTypes]

\* the recordExecution calls made for toolName so far, by executeTool and
\* from outside
Recordings(toolName) ==
    monitor.direct[toolName]
    + Cardinality({c \in Calls : call[c].tool = toolName /\ recorded[c] = 1})

\* the results recordExecution is called with from outside
DirectResults(toolName) ==
    {[success |-> TRUE, tool |-> toolName, timestamp |-> now,
      responseTime |-> 1],
     FailureResult(toolName, AbortError, now),
     [success |-> FALSE, tool |-> toolName, timestamp |-> now,
      error |-> "failed"]}

\* rateLimiter.isAllowed(toolName, config)
IsAllowedCall(toolName, cfg) ==
    /\ LET r == IsAllowed(windows, toolName, cfg, now)
       IN  /\ windows' = r.windows
           /\ monitor' = [monitor EXCEPT
                            !.returned = [NoReturn EXCEPT
                                            !.allowed = {r.allowed}]]
    /\ UNCHANGED <<now, manifest, stats, pc, call, result, attempts, sleeps,
                   admitted, recorded, rlLog, setup, request, server,
                   manifestFile, transform, jobs, stream>>

\* rateLimiter.getStatus(toolName, config)
GetStatusCall(toolName, cfg) ==
    /\ monitor' = [monitor EXCEPT
                     !.returned = [NoReturn EXCEPT
                                     !.status = {GetStatus(windows, toolName,
                                                           cfg, now)}]]
    /\ UNCHANGED <<now, manifest, windows, stats, pc, call, result, attempts,
                   sleeps, admitted, recorded, rlLog, setup, request, server,
                   manifestFile, transform, jobs, stream>>

\* rateLimiter.clear(toolName)
ClearCall(toolName) ==
    /\ windows' = MapDelete(windows, toolName)
    /\ monitor' = [monitor EXCEPT !.returned = NoReturn]
    /\ UNCHANGED <<now, manifest, stats, pc, call, result, attempts, sleeps,
                   admitted, recorded, rlLog, setup, request, server,
                   manifestFile, transform, jobs, stream>>

\* healthMonitor.recordExecution(toolName, result)
RecordExecutionCall(toolName, res) ==
    /\ monitor.direct["echo"] + monitor.direct["other"] < MaxDirect
    /\ stats' = RecordExecution(stats, toolName, res)
    /\ monitor' = [monitor EXCEPT !.direct[toolName] = @ + 1,
                                  !.returned = NoReturn]
    /\ UNCHANGED <<now, manifest, windows, pc, call, result, attempts, sleeps,
                   admitted, recorded, rlLog, setup, request, server,
                   manifestFile, transform, jobs, stream>>

\* healthMonitor.getHealth(toolName)
GetHealthCall(toolName) ==
    /\ monitor' = [monitor EXCEPT
                     !.returned = [NoReturn EXCEPT
                                     !.health = {GetHealth(stats,
                                                           toolName)}]]
    /\ UNCHANGED <<now, manifest, windows, stats, pc, call, result, attempts,
                   sleeps, admitted, recorded, rlLog, setup, request, server,
                   manifestFile, transform, jobs, stream>>

\* healthMonitor.clearStats(toolName)
ClearStats(toolName) ==
    /\ stats' = MapDelete(stats, toolName)
    /\ monitor' = [monitor EXCEPT
                     !.cleared[toolName] = Recordings(toolName),
                     !.returned = NoReturn]
    /\ UNCHANGED <<now, manifest, windows, pc, call, result, attempts, sleeps,
                   admitted, recorded, rlLog, setup, request, server,
                   manifestFile, transform, jobs, stream>>

\* healthMonitor.clearAllStats()
ClearAllStats ==
    /\ stats' = <<>>
    /\ monitor' = [monitor EXCEPT
                     !.cleared = [n \in StoreNames |-> Recordings(n)],
                     !.returned = NoReturn]
    /\ UNCHANGED <<now, manifest, windows, pc, call, result, attempts, sleeps,
                   admitted, recorded, rlLog, setup, request, server,
                   manifestFile, transform, jobs, stream>>

----------------------------------------------------------------------------
(* Time *)

PendingTimers ==
    {call[c].timer : c \in {d \in Calls : pc[d] \in {"fetching", "sleeping"}}}
    \cup {jobs[j].timer : j \in {i \in DOMAIN jobs : jobs[i].phase = "posting"}}
    \cup {p.timer : p \in monitor.probe}

\* a millisecond passes
Tick ==
    /\ now < MaxTime
    /\ now' = now + 1
    /\ UNCHANGED <<manifest, windows, stats, pc, call, result, attempts,
                   sleeps, admitted, recorded, rlLog, setup, request, server, manifestFile,
                   transform, jobs, monitor, stream>>

\* time passes until the next timer is due
Jump ==
    /\ \E t \in PendingTimers :
          /\ t > now
          /\ \A u \in PendingTimers : u > now => t <= u
          /\ now' = t
    /\ UNCHANGED <<manifest, windows, stats, pc, call, result, attempts,
                   sleeps, admitted, recorded, rlLog, setup, request, server, manifestFile,
                   transform, jobs, monitor, stream>>

---------------------------------------------------------------------------------------------------------------------------------------------------
(* Spec: one executeTool call, against every tool definition of ToolDefs   *)
(* and everything the upstream can do                                      *)

InitState ==
    /\ now = 0
    /\ windows = <<>>
    /\ stats = <<>>
    /\ pc = [c \in Calls |-> "idle"]
    /\ call = [c \in Calls |-> IdleCall]
    /\ result = [c \in Calls |-> NoResult]
    /\ attempts = [c \in Calls |-> 0]
    /\ sleeps = [c \in Calls |-> <<>>]
    /\ admitted = [n \in Names |-> <<>>]
    /\ recorded = [c \in Calls |-> 0]
    /\ rlLog = <<>>
    /\ request = [c \in Calls |-> {}]

Init ==
    /\ manifest \in [Names -> ToolDefs]
    /\ setup = NoSetup
    /\ server = NoServer
    /\ InitRest
    /\ InitState

Next ==
    \/ /\ \E n \in Names, a \in ArgKinds : StartCall(1, n, a, <<>>)
       /\ UNCHANGED <<server, jobs>>
    \/ \E r \in Responses : FetchResponds(1, r)
    \/ \E e \in FetchErrors \cup {InvalidUrlError} : FetchFails(1, e)
    \/ FetchAborts(1)
    \/ Wake(1)
    \/ ReadErrorBody(1)
    \/ ReadDataBody(1)
    \/ Tick
    \/ Jump

Spec == Init /\ [][Next]_vars

---------------------------------------------------------------------------------------------------------------------------------------------------
(* ConcSpec: NumCalls concurrent executeTool calls of a rate-limited tool, *)
(* against an upstream that answers 200 with a JSON body                    *)

ConcToolDefs ==
    {t \in ToolDefs : /\ t.rateLimit # {}
                      /\ t.urlValid
                      /\ t.method = {}
                      /\ t.maxRetries = {}
                      /\ t.retryDelay = {}
                      /\ t.timeout = {}}

ConcResponses ==
    {r \in Responses : /\ r.status = 200
                       /\ r.contentType = {"application/json"}
                       /\ r.body = "json"}

InitConc ==
    /\ manifest \in [Names -> ConcToolDefs]
    /\ setup = NoSetup
    /\ server = NoServer
    /\ InitRest
    /\ InitState

NextConc ==
    \/ /\ \E c \in Calls, n \in Names : StartCall(c, n, "object", <<>>)
       /\ UNCHANGED <<server, jobs>>
    \/ \E c \in Calls, r \in ConcResponses : FetchResponds(c, r)
    \/ \E c \in Calls : ReadDataBody(c)
    \/ Tick

ConcSpec == InitConc /\ [][NextConc]_vars

----------------------------------------------------------------------------
(* LiveSpec: Spec, where every fetch completes or is aborted by its        *)
(* timeout, every timer fires and every body read ends                     *)

AttemptEnds(c) ==
    \/ \E r \in Responses : FetchResponds(c, r)
    \/ \E e \in FetchErrors \cup {InvalidUrlError} : FetchFails(c, e)
    \/ FetchAborts(c)

LiveSpec ==
    /\ Spec
    /\ WF_vars(Jump)
    /\ WF_vars(AttemptEnds(1))
    /\ WF_vars(Wake(1))
    /\ WF_vars(ReadErrorBody(1))
    /\ WF_vars(ReadDataBody(1))

----------------------------------------------------------------------------
(* RLSpec: isAllowed called directly for one tool, at non-decreasing times *)

RLWindows == {100 * w : w \in 1..MaxWindow} \cup {1000}

RLSteps == {100, 900}

RLToolDefs ==
    {[method |-> {}, urlValid |-> TRUE,
      rateLimit |-> {[requests |-> r, window |-> w]},
      maxRetries |-> {}, retryDelay |-> {}, timeout |-> {}] :
         r \in 1..MaxRequests, w \in RLWindows}

\* rateLimiter.isAllowed(toolName, config) at time now
RLCall(toolName) ==
    /\ Len(rlLog) < MaxRLCalls
    /\ LET rl == IsAllowed(windows, toolName, manifest[toolName].rateLimit, now)
       IN  /\ windows' = rl.windows
           /\ rlLog' = Append(rlLog, [t |-> now, allowed |-> rl.allowed,
                                      before |-> WindowOf(windows, toolName),
                                      after |-> WindowOf(rl.windows, toolName)])
           /\ admitted' = IF rl.allowed
                          THEN [admitted EXCEPT ![toolName] = Append(@, now)]
                          ELSE admitted
    /\ UNCHANGED <<now, manifest, stats, pc, call, result, attempts, sleeps,
                   recorded, setup, request, server, manifestFile,
                   transform, jobs, monitor, stream>>

\* time passes between two calls
RLTick(d) ==
    /\ now + d <= MaxRLTime
    /\ now' = now + d
    /\ UNCHANGED <<manifest, windows, stats, pc, call, result, attempts,
                   sleeps, admitted, recorded, rlLog, setup, request, server, manifestFile,
                   transform, jobs, monitor, stream>>

InitRL ==
    /\ manifest \in [Names -> RLToolDefs]
    /\ setup = NoSetup
    /\ server = NoServer
    /\ InitRest
    /\ InitState

NextRL ==
    \/ \E n \in Names : RLCall(n)
    \/ \E d \in RLSteps : RLTick(d)

RLSpec == InitRL /\ [][NextRL]_vars

----------------------------------------------------------------------------
(* HdrSpec: one executeTool call of a tool with any auth, authFrom, secret  *)
(* file and environment, for every header object a caller can pass          *)

CallerKeys == {"authorization", "X-API-KEY", "host", "Content-Length",
               "USER-AGENT", "content-type", "x-trace"}

\* the header objects of at most MaxCallerHeaders entries
CallerHeaders ==
    UNION {{[i \in 1..k |-> [key |-> f[i], value |-> "caller"]] :
               f \in {g \in [1..k -> CallerKeys] :
                         \A i, j \in 1..k : i # j => g[i] # g[j]}} :
           k \in 0..MaxCallerHeaders}

\* what a secret file holds for a tool
SecretAuths ==
    {[type |-> "header", name |-> {"X-Api-Key"}, value |-> {"secret"},
      valueFromEnv |-> {}, token |-> {}, tokenFromEnv |-> {}],
     [type |-> "jwt", name |-> {}, value |-> {}, valueFromEnv |-> {},
      token |-> {"secret"}, tokenFromEnv |-> {}]}

\* the secret files are read only for a tool that has authFrom
Setups ==
    {s \in [auth : [Names -> {{}} \cup {{a} : a \in AuthObjs}],
            authFrom : [Names -> {{}} \cup {{[user |-> u]} : u \in Users}],
            secrets : [Users -> [Names -> {{}} \cup
                                          {{a} : a \in SecretAuths}]],
            env : [EnvVars -> {{}} \cup {{v} : v \in EnvValues}],
            async : [Names -> {FALSE}],
            replay : {{}}] :
        \A n \in Names : s.authFrom[n] = {} =>
                              \A u \in Users : s.secrets[u][n] = {}}

HdrToolDefs ==
    {t \in ToolDefs : /\ t.rateLimit = {}
                      /\ t.urlValid
                      /\ t.maxRetries = {}
                      /\ t.retryDelay = {}
                      /\ t.timeout = {}}

InitHdr ==
    /\ manifest \in [Names -> HdrToolDefs]
    /\ setup \in Setups
    /\ server = NoServer
    /\ InitRest
    /\ InitState

NextHdr ==
    \/ /\ \E n \in Names, a \in ArgKinds, h \in CallerHeaders :
              StartCall(1, n, a, h)
       /\ UNCHANGED <<server, jobs>>
    \/ \E r \in ConcResponses : FetchResponds(1, r)
    \/ ReadDataBody(1)

HdrSpec == InitHdr /\ [][NextHdr]_vars

----------------------------------------------------------------------------
(* ValSpec: an MCP server over a toolsConfig of one tool object, valid or   *)
(* not, whose upstream answers 200 with a JSON body                         *)

InitVal ==
    /\ \E t \in Deviating(MaxDeviations) :
          /\ server = [NoServer EXCEPT !.tools = <<t>>]
          /\ manifest = [n \in Names |-> Canonical(t)]
          /\ setup = SetupOf(t)
    /\ InitRest
    /\ InitState

NextVal ==
    \/ Construct
    \/ \E n \in Names, a \in ArgKinds : CallRegistered(1, n, a)
    \/ ListTools
    \/ \E n \in Names, a \in ArgKinds : CallTool(1, n, a)
    \/ \E r \in ConcResponses : FetchResponds(1, r)
    \/ ReadDataBody(1)

ValSpec == InitVal /\ [][NextVal]_vars

----------------------------------------------------------------------------
(* ManSpec: validateManifest on every manifest of at most MaxTools tools,  *)
(* named alike or not, valid or not                                        *)

InitMan ==
    LET names == {Str("x"), Str("X"), Str(" "), Str(""), NoStr(Undefined)}
        tools == {[t EXCEPT !.name = n] :
                     n \in names,
                     t \in {BaseTool, [BaseTool EXCEPT !.url = NoStr(Undefined)],
                            [BaseTool EXCEPT !.rateLimit = NoRateLimit("null")]}}
        configs == {[kind |-> k, items |-> <<>>] : k \in {Undefined, "object"}}
                   \cup {[kind |-> "array", items |-> items] :
                             items \in UNION {[1..k -> tools] : k \in 0..MaxTools}}
    IN  /\ manifestFile \in {[config |-> c, validation |-> {}] : c \in configs}
        /\ manifest = [n \in Names |-> Canonical(BaseTool)]
        /\ setup = NoSetup
        /\ server = NoServer
        /\ transform = NoTransform
        /\ jobs = NoJobs
        /\ monitor = NoMonitor
        /\ stream = NoStream
        /\ InitState

NextMan == ValidateManifestCall

ManSpec == InitMan /\ [][NextMan]_vars

----------------------------------------------------------------------------
(* TrSpec: transformSimplifiedTool on every entry, canonical, shorthand or *)
(* neither, and then on what it returned                                   *)

Entries ==
    [name : {{}, {"x"}},
     webhook : {{}, {""}, {"https://host/hooks/send-email"}, {"https://host"},
                {"not a url"}},
     url : {{}, {"http://host/hook"}},
     description : {{}, {""}, {"Echo"}},
     method : {{}, {"GET"}},
     input : {{}, {"customSchema"}},
     output : {{}, {"customSchema"}},
     public : {{}, {TRUE}}]

InitTr ==
    /\ transform \in {[NoTransform EXCEPT !.heap = <<e>>, !.given = {e}] :
                          e \in Entries}
    /\ manifest = [n \in Names |-> Canonical(BaseTool)]
    /\ setup = NoSetup
    /\ server = NoServer
    /\ manifestFile = NoManifestFile
    /\ jobs = NoJobs
    /\ monitor = NoMonitor
    /\ stream = NoStream
    /\ InitState

NextTr == TransformEntry \/ TransformAgain

TrSpec == InitTr /\ [][NextTr]_vars

----------------------------------------------------------------------------
(* LoadSpec: loadManifest on every manifest of at most MaxShorthand         *)
(* entries {name, webhook}, then the MCP server over the loaded manifest    *)

MaxShorthand == 2       \* longest tools array of a shorthand manifest

ShorthandEntries ==
    [name : {{""}, {"x"}, {"X"}, {" "}},
     webhook : {{""}, {" "}, {"https://host/hooks/send-email"},
                {"https://host"}, {"not a url"}},
     url : {{}}, description : {{}}, method : {{}}, input : {{}},
     output : {{}}, public : {{}}]

\* a field of a parsed entry as validateTool reads it
StrField(opt) == IF opt = {} THEN NoStr(Undefined) ELSE Str(Val(opt))
SchemaField(opt) == IF opt = {} THEN Shape(Undefined) ELSE Shape("object")

\* the tool object validateTool is given for an entry of parsedConfig.tools
ToolObject(entry) ==
    [BaseTool EXCEPT !.name = StrField(entry.name),
                     !.description = StrField(entry.description),
                     !.url = StrField(entry.url),
                     !.method = StrField(entry.method),
                     !.input = SchemaField(entry.input),
                     !.output = SchemaField(entry.output)]

\* tools.map(tool => transformSimplifiedTool(tool)) over the first k entries:
\* the heap it leaves and the references it returns
RECURSIVE TransformToolsArray(_, _)
TransformToolsArray(heap, k) ==
    IF k = 0 THEN [heap |-> heap, refs |-> <<>>]
    ELSE LET before == TransformToolsArray(heap, k - 1)
             r == TransformSimplifiedTool(before.heap, k)
         IN  [heap |-> r.heap, refs |-> Append(before.refs, r.ref)]

\* loadManifest: the parsed tools array is transformed, then validated
LoadManifest ==
    /\ manifestFile.validation = {}
    /\ LET r == TransformToolsArray(transform.heap, Len(transform.heap))
           config == [kind |-> "array",
                      items |-> [i \in DOMAIN r.refs |->
                                    ToolObject(r.heap[r.refs[i]])]]
       IN  /\ transform' = [transform EXCEPT !.heap = r.heap]
           /\ manifestFile' = [config |-> config,
                               validation |-> {ValidateManifest(config)}]
    /\ UNCHANGED <<now, manifest, windows, stats, pc, call, result, attempts,
                   sleeps, admitted, recorded, rlLog, setup, request, server,
                   jobs, monitor, stream>>

\* index.js: the manifest loadManifest returned becomes the toolsConfig of
\* the server; loadManifest exits when the manifest is invalid
StartServer ==
    /\ manifestFile.validation # {}
    /\ Val(manifestFile.validation).success
    /\ server.tools = <<>>
    /\ server' = [server EXCEPT !.tools = manifestFile.config.items]
    /\ UNCHANGED <<now, manifest, windows, stats, pc, call, result, attempts,
                   sleeps, admitted, recorded, rlLog, setup, request,
                   manifestFile, transform, jobs, monitor, stream>>

InitLoad ==
    /\ transform \in {[NoTransform EXCEPT !.heap = entries] :
                         entries \in UNION {[1..k -> ShorthandEntries] :
                                               k \in 1..MaxShorthand}}
    /\ manifest = [n \in Names |-> Canonical(BaseTool)]
    /\ setup = NoSetup
    /\ server = NoServer
    /\ manifestFile = NoManifestFile
    /\ jobs = NoJobs
    /\ monitor = NoMonitor
    /\ stream = NoStream
    /\ InitState

NextLoad ==
    \/ LoadManifest
    \/ StartServer
    \/ server.tools # <<>> /\ Construct
    \/ server.tools # <<>> /\ ListTools

LoadSpec == InitLoad /\ [][NextLoad]_vars

----------------------------------------------------------------------------
(* JobSpec: at most MaxPosts requests to POST /tools/:toolName, with or     *)
(* without callback_url, for a tool that is async or not; the upstream     *)
(* answers, fails or hangs, and so does the callback endpoint              *)

JobToolDefs ==
    {t \in ToolDefs : /\ t.rateLimit = {}
                      /\ t.maxRetries = {1}
                      /\ t.retryDelay = {}
                      /\ t.timeout = {}}

JobResponses ==
    {r \in Responses : /\ r.status \in {200, 503}
                       /\ r.contentType = {"application/json"}
                       /\ r.body = "json"}

JobFetchErrors == {e \in FetchErrors : e.code = {"ECONNRESET"}}
                  \cup {InvalidUrlError}

InitJob ==
    /\ manifest \in [Names -> JobToolDefs]
    /\ setup \in {[NoSetup EXCEPT !.async = a] : a \in [Names -> BOOLEAN]}
    /\ server = NoServer
    /\ manifestFile = NoManifestFile
    /\ transform = NoTransform
    /\ jobs = NoJobs
    /\ monitor = NoMonitor
    /\ stream = NoStream
    /\ InitState

\* the callback fetch settles
CallbackEnds(j) ==
    \/ \E ok \in BOOLEAN : CallbackResponds(j, ok)
    \/ CallbackRejects(j)
    \/ CallbackAborts(j)

NextJob ==
    \/ \E n \in Names, a \in {"object", "emptyObject"},
          callbackUrl \in {{}, {"http://client/callback"}} :
          /\ callbackUrl # {} => a = "object"
          /\ PostTool(n, a, callbackUrl)
    \/ \E c \in Calls, r \in JobResponses : FetchResponds(c, r)
    \/ \E c \in Calls, e \in JobFetchErrors : FetchFails(c, e)
    \/ \E c \in Calls : FetchAborts(c)
    \/ \E c \in Calls : ReadErrorBody(c)
    \/ \E c \in Calls : ReadDataBody(c)
    \/ \E j \in 1..MaxPosts : RecordOutcome(j)
    \/ \E j \in 1..MaxPosts : JobRejects(j)
    \/ \E j \in 1..MaxPosts, ok \in BOOLEAN : CallbackResponds(j, ok)
    \/ \E j \in 1..MaxPosts : CallbackBodyRead(j)
    \/ \E j \in 1..MaxPosts : CallbackRejects(j)
    \/ \E j \in 1..MaxPosts : CallbackAborts(j)
    \/ Jump

JobSpec == InitJob /\ [][NextJob]_vars

\* JobSpec, where every fetch settles, every timer fires, every body read
\* ends and every continuation runs; requests need not arrive
JobLiveSpec ==
    /\ JobSpec
    /\ WF_vars(Jump)
    /\ \A c \in Calls :
          /\ WF_vars(\/ \E r \in JobResponses : FetchResponds(c, r)
                     \/ \E e \in JobFetchErrors : FetchFails(c, e)
                     \/ FetchAborts(c))
          /\ WF_vars(ReadErrorBody(c))
          /\ WF_vars(ReadDataBody(c))
    /\ \A j \in 1..MaxPosts :
          /\ WF_vars(RecordOutcome(j))
          /\ WF_vars(JobRejects(j))
          /\ WF_vars(CallbackEnds(j))
          /\ WF_vars(CallbackBodyRead(j))

----------------------------------------------------------------------------
(* HealthSpec: one executeTool call, whose upstream answers or fails, next *)
(* to at most MaxProbes health checks of the same tool                     *)

NextHealth ==
    \/ /\ \E n \in Names : StartCall(1, n, "object", <<>>)
       /\ UNCHANGED <<server, jobs>>
    \/ \E r \in JobResponses : FetchResponds(1, r)
    \/ \E e \in JobFetchErrors : FetchFails(1, e)
    \/ ReadErrorBody(1)
    \/ ReadDataBody(1)
    \/ \E n \in Names : PerformHealthCheck(n)
    \/ \E status \in Statuses : ProbeResponds(status)
    \/ \E e \in JobFetchErrors \cup {AbortError} : ProbeFails(e)
    \/ Tick
    \/ Jump

InitHealth ==
    /\ manifest \in [Names -> JobToolDefs]
    /\ setup = NoSetup
    /\ server = NoServer
    /\ InitRest
    /\ InitState

HealthSpec == InitHealth /\ [][NextHealth]_vars

----------------------------------------------------------------------------
(* StreamSpec: one streaming result is formatted, for a client that takes  *)
(* the generator or through the buffer; the stream delivers at most        *)
(* MaxChunks byte chunks and ends, or a read fails                         *)

\* the byte chunks a read can deliver
ByteChunks ==
    UNION {[1..n -> Bytes] : n \in 1..MaxChunkLen}

\* the streaming results of executeTool
StreamResults ==
    {StreamResult(r) : r \in {r \in Responses : Ok(r) /\ IsStreamResponse(r)}}

NextStream ==
    \/ \E res \in StreamResults, buffered \in BOOLEAN :
          FormatToolResponse(res, buffered)
    \/ \E value \in ByteChunks : ReadChunk(value)
    \/ ReadDone
    \/ \E error \in {BodyError, AbortError} : ReadFails(error)

StreamSpec == InitHealth /\ [][NextStream]_vars

----------------------------------------------------------------------------
(* MonSpec: one executeTool call next to calls of the health monitor from  *)
(* outside, for two tool names; IsoSpec: calls of the rate limiter and of  *)
(* the health monitor from outside, for two tool names                     *)

\* the rateLimit configurations isAllowed and getStatus are called with
StoreConfigs == {{}, {[requests |-> 1, window |-> 1]}}

\* the manifest holds one tool, with no rateLimit and a single attempt
InitMon ==
    /\ manifest = [n \in Names |->
                     CHOOSE t \in JobToolDefs : t.urlValid /\ t.method = {}]
    /\ setup = NoSetup
    /\ server = NoServer
    /\ InitRest
    /\ InitState

NextMon ==
    \/ /\ \E n \in Names : StartCall(1, n, "object", <<>>)
       /\ UNCHANGED <<server, jobs>>
    \/ \E r \in JobResponses : FetchResponds(1, r)
    \/ \E e \in JobFetchErrors : FetchFails(1, e)
    \/ ReadErrorBody(1)
    \/ ReadDataBody(1)
    \/ \E n \in StoreNames : \E res \in DirectResults(n) :
          RecordExecutionCall(n, res)
    \/ \E n \in StoreNames : GetHealthCall(n)
    \/ \E n \in StoreNames : ClearStats(n)
    \/ ClearAllStats

MonSpec == InitMon /\ [][NextMon]_vars

NextIso ==
    \/ \E n \in StoreNames, cfg \in StoreConfigs : IsAllowedCall(n, cfg)
    \/ \E n \in StoreNames, cfg \in StoreConfigs : GetStatusCall(n, cfg)
    \/ \E n \in StoreNames : ClearCall(n)
    \/ \E n \in StoreNames : \E res \in DirectResults(n) :
          RecordExecutionCall(n, res)
    \/ \E n \in StoreNames : GetHealthCall(n)
    \/ \E n \in StoreNames : ClearStats(n)
    \* the clock runs until the windows of StoreConfigs have expired
    \/ /\ \E cfg \in StoreConfigs : cfg # {} /\ now < Val(cfg).window
       /\ Tick

IsoSpec == InitMon /\ [][NextIso]_vars

----------------------------------------------------------------------------
(* DebugSpec: the same executeTool call made twice, call 1 with the DEBUG   *)
(* option and then call 2 without it, against an upstream that does to the *)
(* k-th request of either call what setup.replay says; and validateTool    *)
(* called                                                                  *)
(* with and without debug for every tool object that differs from BaseTool *)
(* in at most one field                                                    *)

DebugToolDefs ==
    {t \in ToolDefs : /\ t.rateLimit \in {{}, {[requests |-> 2, window |-> 1]}}
                      /\ t.maxRetries = {2}
                      /\ t.retryDelay = {1}
                      /\ t.timeout = {1}}

\* an empty environment; header auth whose value comes from the
\* environment; authFrom without a secret file
DebugSetups ==
    {NoSetup,
     [NoSetup EXCEPT
        !.auth = [n \in Names |->
                     {[type |-> "header", name |-> {"X-Api-Key"},
                       value |-> {"literal"}, valueFromEnv |-> {"API_KEY"},
                       token |-> {}, tokenFromEnv |-> {}]}],
        !.env = [v \in EnvVars |-> {"from-env"}]],
     [NoSetup EXCEPT
        !.authFrom = [n \in Names |-> {[user |-> "alice"]}]]}

\* what the upstream does to one request: it answers, the fetch rejects, or
\* nothing arrives before the timeout
Answers(response) == [kind |-> "response", response |-> {response}, error |-> {}]
Rejects(error) == [kind |-> "error", response |-> {}, error |-> {error}]
Hangs == [kind |-> "hang", response |-> {}, error |-> {}]

UpstreamOutcomes ==
    {Answers(r) : r \in {q \in Responses : q.body # "envelope"}}
    \cup {Rejects(e) : e \in FetchErrors}
    \cup {Hangs}

\* the attempt that meets this outcome is followed by another one
Retried(outcome) ==
    \/ outcome.kind = "hang"
    \/ outcome.kind = "error" /\ IsRetryableError(Val(outcome.error))

\* what the upstream does to the requests of a call, one entry per attempt;
\* the entries after the last attempt repeat it
Replays(tool) ==
    IF tool.urlValid
    THEN {s \in [1..MaxRetries(tool) -> UpstreamOutcomes] :
             \A k \in 2..MaxRetries(tool) :
                 ~Retried(s[k - 1]) => s[k] = s[k - 1]}
    ELSE {[k \in 1..MaxRetries(tool) |-> Rejects(InvalidUrlError)]}

Replay == Val(setup.replay)

\* the upstream does to the pending request of call c what the replay says
UpstreamActs(c) ==
    /\ setup.replay # {}
    /\ pc[c] = "fetching"
    /\ LET outcome == Replay.upstream[call[c].attempt]
       IN  \/ outcome.kind = "response"
              /\ FetchResponds(c, Val(outcome.response))
           \/ outcome.kind = "error" /\ FetchFails(c, Val(outcome.error))
           \/ outcome.kind = "hang" /\ FetchAborts(c)

InitDebug ==
    /\ \/ /\ manifest \in [Names -> DebugToolDefs]
          /\ \E s \in DebugSetups, n \in Names, a \in ArgKinds :
                \E upstream \in Replays(manifest[n]) :
                   setup = [s EXCEPT !.replay = {[tool |-> n, args |-> a,
                                                 upstream |-> upstream]}]
          /\ server = NoServer
       \/ /\ manifest = [n \in Names |-> Canonical(BaseTool)]
          /\ setup = NoSetup
          /\ \E t \in Deviating(1) : server = [NoServer EXCEPT !.tools = <<t>>]
    /\ InitRest
    /\ InitState

NextDebug ==
    \/ /\ setup.replay # {}
       /\ \E c \in 1..2 :
             /\ c = 2 => pc[1] \in {"returned", "raised"}
             /\ ExecuteTool(c, Replay.tool, Replay.args, <<>>, c = 1)
       /\ UNCHANGED <<server, jobs>>
    \/ \E c \in 1..2 : UpstreamActs(c)
    \/ \E c \in 1..2 : Wake(c)
    \/ \E c \in 1..2 : ReadErrorBody(c)
    \/ \E c \in 1..2 : ReadDataBody(c)
    \/ Jump
    \/ \E throwOnError \in BOOLEAN, debug \in BOOLEAN :
          ValidateToolCall(throwOnError, debug)

DebugSpec == InitDebug /\ [][NextDebug]_vars

----------------------------------------------------------------------------
(* Properties *)

\* the tool definition a started call runs
ToolOf(c) == manifest[call[c].tool]

\* the stored timestamps of toolName that are inside the window ending at t
LiveAt(stored, t, window) == {i \in DOMAIN stored : stored[i] > t - window}

\* C1: a call of a rate-limited tool whose window is at quota returns at
\* once with success=false, status 429 and the current window usage; it
\* issues no fetch and sleeps no backoff, then or later.
C1_RejectsAtQuota ==
    \A c \in Calls :
        (pc[c] = "idle" /\ pc'[c] # "idle" /\ manifest[call'[c].tool].rateLimit # {})
        => LET toolName == call'[c].tool
               config == Val(manifest[toolName].rateLimit)
               usage == Cardinality(LiveAt(WindowOf(windows, toolName), now,
                                           config.window))
           IN  usage >= config.requests
               => /\ pc'[c] = "returned"
                  /\ result'[c].success = FALSE
                  /\ result'[c].status = 429
                  /\ result'[c].rateLimit.requests = usage
                  /\ result'[c].rateLimit.limit = config.requests
                  /\ attempts'[c] = 0
                  /\ sleeps'[c] = <<>>

C1_RejectedNeverFetches ==
    \A c \in Calls :
        (pc[c] = "returned" /\ result[c].status = 429)
        => attempts[c] = 0 /\ sleeps[c] = <<>>

C1_RateLimitedReturns429 ==
    [](C1_RejectedNeverFetches) /\ [][C1_RejectsAtQuota]_vars

C1_Witness ==
    \E c \in Calls : /\ pc[c] = "returned"
                     /\ result[c].status = 429
                     /\ result[c].rateLimit.requests = result[c].rateLimit.limit

\* the instants of the rate limiter specification up to now
RLInstants == {100 * k : k \in 0..(now \div 100)}

\* C2: with a fixed config {requests: R, window: W} and isAllowed called at
\* non-decreasing times, at most R accepted timestamps lie in any trailing
\* window (t - W, t]; with R=2, W=1000 the calls at 0, 100, 200 are allowed,
\* allowed, rejected and a call at 1100 is allowed.
C2_AtMostRPerWindow ==
    \A n \in Names :
        LET config == Val(manifest[n].rateLimit)
            acc == admitted[n]
        IN  /\ \A t \in RLInstants :
                  Cardinality({i \in DOMAIN acc :
                                  acc[i] > t - config.window /\ acc[i] <= t})
                      <= config.requests
            /\ (/\ config = [requests |-> 2, window |-> 1000]
                /\ Len(rlLog) >= 3
                /\ rlLog[1].t = 0 /\ rlLog[2].t = 100 /\ rlLog[3].t = 200)
               => /\ rlLog[1].allowed
                  /\ rlLog[2].allowed
                  /\ ~rlLog[3].allowed
                  /\ (Len(rlLog) >= 4 /\ rlLog[4].t = 1100) => rlLog[4].allowed

C2_Witness ==
    \E n \in Names :
        /\ Val(manifest[n].rateLimit) = [requests |-> 2, window |-> 1000]
        /\ Len(rlLog) = 4
        /\ rlLog[1].t = 0 /\ rlLog[2].t = 100 /\ rlLog[3].t = 200
        /\ rlLog[4].t = 1100
        /\ ~rlLog[3].allowed /\ rlLog[4].allowed

\* C3: isAllowed at time now answers true exactly when fewer than
\* `requests` stored timestamps are > now - window; an accepted call leaves
\* the live timestamps followed by now, a rejected call leaves the live
\* timestamps and records nothing.
C3_IsAllowedContract ==
    \A n \in Names : \A i \in DOMAIN rlLog :
        LET config == Val(manifest[n].rateLimit)
            e == rlLog[i]
            live == LiveAt(e.before, e.t, config.window)
            kept == SelectSeq(e.before, LAMBDA ts : ts > e.t - config.window)
        IN  /\ e.allowed <=> Cardinality(live) < config.requests
            /\ e.allowed => e.after = Append(kept, e.t)
            /\ ~e.allowed => e.after = kept

C3_Witness ==
    \E i, j \in DOMAIN rlLog :
        /\ rlLog[i].allowed
        /\ rlLog[i].before # <<>>
        /\ Len(rlLog[i].after) <= Len(rlLog[i].before)
        /\ ~rlLog[j].allowed

\* a call that got past admission control
PastAdmission(c) ==
    /\ pc[c] # "idle"
    /\ ~(pc[c] = "returned" /\ "rateLimit" \in DOMAIN result[c])

\* C4: however concurrent executeTool calls of one rate-limited tool
\* interleave, the calls that got past admission control with start times
\* inside one window (t - W, t] never outnumber rateLimit.requests.
C4_AdmittedWithinQuota ==
    \A n \in Names :
        manifest[n].rateLimit # {}
        => LET config == Val(manifest[n].rateLimit)
           IN  \A t \in 0..now :
                   Cardinality({c \in Calls :
                                   /\ PastAdmission(c)
                                   /\ call[c].tool = n
                                   /\ call[c].startTime > t - config.window
                                   /\ call[c].startTime <= t})
                       <= config.requests

C4_Witness ==
    \E c, d \in Calls :
        /\ c # d
        /\ call[c].tool = call[d].tool
        /\ pc[c] \in {"fetching", "sleeping", "readingData"}
        /\ PastAdmission(c)
        /\ pc[d] = "returned"
        /\ "rateLimit" \in DOMAIN result[d]
        /\ call[d].startTime >= call[c].startTime

\* the failures the retry policy names: timeout/abort, connection reset,
\* DNS resolution failure, connection timeout
RetryableFailure(error) ==
    \/ error.name = "AbortError"
    \/ error.code \in {{"ECONNRESET"}, {"ENOTFOUND"}, {"ETIMEDOUT"}}

\* C5: a tool with maxRetries = n >= 1 never makes more than n fetch
\* attempts, and a call that ends on a retryable error (so that every
\* attempt failed with one) has made exactly n attempts and returns a
\* failure result.
C5_ExactlyMaxRetriesAttempts ==
    \A c \in Calls :
        (pc[c] # "idle" /\ ToolOf(c).maxRetries # {}
                        /\ Val(ToolOf(c).maxRetries) >= 1)
        => LET n == Val(ToolOf(c).maxRetries)
           IN  /\ attempts[c] <= n
               /\ (/\ pc[c] = "returned"
                   /\ call[c].error # {}
                   /\ RetryableFailure(Val(call[c].error)))
                  => /\ attempts[c] = n
                     /\ Len(sleeps[c]) = n - 1
                     /\ result[c].success = FALSE

C5_Witness ==
    \E c \in Calls :
        /\ pc[c] = "returned"
        /\ ToolOf(c).maxRetries = {2}
        /\ call[c].error # {}
        /\ RetryableFailure(Val(call[c].error))
        /\ attempts[c] = 2

\* the retryDelay a tool definition configures, 1000 when it has none
ConfiguredRetryDelay(tool) ==
    IF tool.retryDelay = {} THEN DefaultRetryDelay ELSE Val(tool.retryDelay)

C6_Delays ==
    \A c \in Calls : \A k \in DOMAIN sleeps[c] :
        sleeps[c][k] = ConfiguredRetryDelay(ToolOf(c)) * Pow2(k - 1)

C6_NoEarlyAttempt ==
    \A c \in Calls :
        (pc[c] = "sleeping" /\ pc'[c] = "fetching")
        => now' >= call[c].since
                     + ConfiguredRetryDelay(ToolOf(c)) * Pow2(call[c].attempt - 1)

\* C6: between failed attempt k and attempt k+1 the call sleeps
\* retryDelay * 2^(k-1) milliseconds, and attempt k+1 does not start before
\* that sleep has elapsed.
C6_BackoffSchedule == [](C6_Delays) /\ [][C6_NoEarlyAttempt]_vars

\* the result was built from an upstream response that was not 2xx
FromHttpError(c) == pc[c] = "returned" /\ "details" \in DOMAIN result[c]

\* C7: a response with status >= 500 is retried while attempts remain, so a
\* call ends on such a response only with its attempts used up; a 4xx
\* response ends the call with no further attempt.
C7_ServerErrorsRetried ==
    \A c \in Calls :
        FromHttpError(c)
        => /\ result[c].status >= 500 => attempts[c] = MaxRetries(ToolOf(c))
           /\ result[c].status < 500 => attempts[c] = call[c].attempt

\* C8: executeTool never raises: every call of a validated tool ends with
\* an ExecutionResult.
C8_NeverRaises == \A c \in Calls : pc[c] # "raised"

\* C9: when every attempt completes or is aborted by its timeout, every
\* executeTool call eventually returns an ExecutionResult.
C9_EventuallyReturns ==
    \A c \in Calls : (pc[c] # "idle") ~> (pc[c] = "returned")

\* C10: every executeTool call has recorded its result in the
\* HealthMonitor when it returns, whatever the outcome.
C10_AlwaysRecorded ==
    \A c \in Calls : pc[c] = "returned" => recorded[c] = 1

\* C11: every ExecutionResult executeTool returns, on every return path,
\* carries `tool` equal to the tool's name and a `timestamp`, and every
\* successful result also carries `responseTime`.
C11_ResultTagged ==
    \A c \in Calls :
        pc[c] = "returned"
        => /\ "tool" \in DOMAIN result[c]
           /\ result[c].tool = call[c].tool
           /\ "timestamp" \in DOMAIN result[c]
           /\ result[c].success => "responseTime" \in DOMAIN result[c]

\* the errors a fetch attempt ends on: rejected by the transport or aborted
TransportFailures == FetchErrors \cup {InvalidUrlError, AbortError}

\* C12: a call that ends on a transport failure (retries used up, or the
\* failure is not retryable) returns success=false with status 408 when the
\* last failure was the timeout abort and 500 otherwise, and with errorType
\* the kind (name) of that failure.
C12_TransportFailureResult ==
    \A c \in Calls :
        (pc[c] = "returned" /\ call[c].error # {}
                            /\ Val(call[c].error) \in TransportFailures)
        => LET error == Val(call[c].error)
           IN  /\ result[c].success = FALSE
               /\ result[c].status = IF error = AbortError THEN 408 ELSE 500
               /\ result[c].errorType = error.name
               /\ \/ ~IsRetryableError(error)
                  \/ attempts[c] = MaxRetries(ToolOf(c))

C12_Witness ==
    \E c \in Calls :
        /\ pc[c] = "returned"
        /\ call[c].error = {AbortError}
        /\ attempts[c] = 2
        /\ result[c].status = 408
        /\ result[c].errorType = "AbortError"

\* the request a call has passed to fetch
Sent(c) == Val(request[c])

\* C13: a call of a tool that declares authFrom uses the secret found for
\* (authFrom.user, tool.name) as its auth, and no auth at all when none is
\* found; it never uses tool.auth.
C13_AuthFromReplacesAuth ==
    \A c \in Calls :
        (request[c] # {} /\ setup.authFrom[call[c].tool] # {})
        => Sent(c).auth =
               LoadSecretAuth(Val(setup.authFrom[call[c].tool]).user,
                              call[c].tool)

\* C14: with header auth and a resolved value, the request has exactly one
\* header named auth.name in any letter case, holding the resolved value;
\* with jwt auth and a resolved token, its only Authorization header is
\* `Bearer <token>`.
C14_CredentialHeaderWins ==
    \A c \in Calls :
        request[c] # {}
        => LET auth == Sent(c).auth
               named == KeysMatching(Sent(c).headers,
                                     ToLowerCase(Val(Val(auth).name)))
               authz == KeysMatching(Sent(c).headers, "authorization")
           IN  /\ (auth # {} /\ Val(auth).type = "header"
                             /\ Sent(c).authValue # {})
                  => /\ Len(named) = 1
                     /\ named[1].value = Val(Sent(c).authValue)
               /\ (auth # {} /\ Val(auth).type = "jwt"
                             /\ Truthy(JwtToken(auth)))
                  => authz = <<[key |-> "Authorization",
                                value |-> Bearer(Val(JwtToken(auth)))]>>

\* C15: for header auth the resolved value is env[valueFromEnv] when
\* valueFromEnv is set and the variable exists in the environment, and the
\* literal `value` otherwise.
C15_EnvValuePrecedence ==
    \A c \in Calls :
        (request[c] # {} /\ Sent(c).auth # {}
                         /\ Val(Sent(c).auth).type = "header")
        => LET auth == Val(Sent(c).auth)
           IN  Sent(c).authValue =
                   IF auth.valueFromEnv # {}
                      /\ ProcessEnv(Val(auth.valueFromEnv)) # {}
                   THEN ProcessEnv(Val(auth.valueFromEnv))
                   ELSE auth.value

HopByHop == {"host", "content-length", "user-agent"}

\* C16: the headers passed to fetch never contain Host, Content-Length or
\* User-Agent in any letter case, whatever the caller's headers and the
\* tool's auth.
C16_HopByHopStripped ==
    \A c \in Calls :
        request[c] # {}
        => \A i \in DOMAIN Sent(c).headers :
               ToLowerCase(Sent(c).headers[i].key) \notin HopByHop

C16_Witness ==
    \E c \in Calls :
        /\ request[c] # {}
        /\ \E i \in DOMAIN Sent(c).originalHeaders :
               Sent(c).originalHeaders[i].key = "host"
        /\ Sent(c).auth # {}
        /\ Val(Sent(c).auth).name = {"User-Agent"}
        /\ Sent(c).authValue # {}
        /\ \E i \in DOMAIN Sent(c).headers :
               Sent(c).headers[i].key = "x-trace"

\* the tool object of toolsConfig a call names
Named(c) == FindTool(server.tools, call[c].tool)

\* validateTool finds nothing wrong with the tool object
PassesValidation(tool) ==
    tool.rateLimit.kind # "null" /\ ValidateErrors(tool) = <<>>

\* C17: no request is issued for a tool object that fails validateTool:
\* only tools that pass it are registered or listed, and a call naming a
\* tool that fails it is aborted before executeTool starts.
C17_NoRequestForInvalidTool ==
    /\ \A c \in Calls :
           (attempts[c] > 0 \/ request[c] # {} \/ pc[c] \notin {"idle", "rejected"})
           => Named(c) # {} /\ PassesValidation(Val(Named(c)))
    /\ \A i \in DOMAIN server.validatedTools :
           PassesValidation(server.validatedTools[i])
    /\ \A l \in server.listed : \A i \in DOMAIN l.tools :
           PassesValidation(l.tools[i])

C17_Witness ==
    /\ server.constructed = "yes"
    /\ server.validatedTools = <<>>
    /\ server.listed = {[ok |-> TRUE, tools |-> <<>>]}
    /\ server.tools[1].name = Str("echo")
    /\ pc[1] = "rejected"
    /\ attempts[1] = 0
    /\ \E i \in DOMAIN server.validations :
           server.validations[i].outcome.kind = "McpError"

\* the checks of a tool definition, in the order the validator makes them
CheckOrder == <<"name", "description", "url", "method", "input", "output",
                "auth", "timeout", "maxRetries", "retryDelay", "rateLimit">>

Verbs == {"get", "GET", "post", "POST", "put", "PUT", "patch", "PATCH",
          "delete", "DELETE"}

Present(v) == v.kind # Undefined

\* whether a tool object violates a check
Violates(tool, check) ==
    CASE check \in {"name", "description", "url"} ->
             tool[check].kind # "string" \/ tool[check].str \in {"", " "}
      [] check = "method" ->
             Present(tool.method)
             /\ ~(tool.method.kind = "string" /\ tool.method.str \in Verbs)
      [] check \in {"input", "output"} ->
             Present(tool[check]) /\ tool[check].kind # "object"
      [] check = "auth" ->
             Present(tool.auth)
             /\ LET a == tool.auth.obj
                    has(f) == f # {} /\ Val(f) \notin {"", " "}
                IN  ~ \/ /\ tool.auth.kind = "object"
                         /\ a.type = "header"
                         /\ has(a.name)
                         /\ (has(a.value) \/ has(a.valueFromEnv))
                      \/ /\ tool.auth.kind = "object"
                         /\ a.type = "jwt"
                         /\ (has(a.token) \/ has(a.tokenFromEnv))
      [] check = "timeout" ->
             Present(tool.timeout)
             /\ ~(tool.timeout.kind = "number" /\ tool.timeout.num > 0)
      [] check = "maxRetries" ->
             Present(tool.maxRetries)
             /\ ~(tool.maxRetries.kind = "number"
                  /\ tool.maxRetries.num \in 0..10)
      [] check = "retryDelay" ->
             Present(tool.retryDelay)
             /\ ~(tool.retryDelay.kind = "number" /\ tool.retryDelay.num >= 0)
      [] check = "rateLimit" ->
             Present(tool.rateLimit)
             /\ ~(tool.rateLimit.kind = "object"
                  /\ tool.rateLimit.requests # 0
                  /\ tool.rateLimit.window # 0)

\* the first check in CheckOrder a tool object violates, if any
FirstViolation(tool) ==
    LET bad == {i \in DOMAIN CheckOrder : Violates(tool, CheckOrder[i])}
    IN  {CheckOrder[i] : i \in {j \in bad : \A k \in bad : j <= k}}

\* the check a violation message is about
CheckOf(message) ==
    CASE message = "INVALID_NAME" -> "name"
      [] message = "INVALID_DESCRIPTION" -> "description"
      [] message = "INVALID_URL" -> "url"
      [] message = "INVALID_METHOD" -> "method"
      [] message = "INVALID_INPUT_SCHEMA" -> "input"
      [] message = "INVALID_OUTPUT_SCHEMA" -> "output"
      [] message \in {"INVALID_AUTH", "INVALID_AUTH_TYPE",
                      "INVALID_AUTH_HEADER_NAME",
                      "auth requires either value or valueFromEnv",
                      "auth requires either token or tokenFromEnv"} -> "auth"
      [] message = "invalid timeout" -> "timeout"
      [] message = "invalid maxRetries" -> "maxRetries"
      [] message = "invalid retryDelay" -> "retryDelay"
      [] message = "invalid rateLimit" -> "rateLimit"
      [] OTHER -> "none"

\* C18: for every tool object, validateTool(tool, true) raises an
\* invalid-request error exactly when validateTool(tool, false) returns
\* false, its message is the first violation in check order, and otherwise
\* both return true.
C18_ThrowMatchesFilter ==
    \A i \in DOMAIN server.validations :
        LET e == server.validations[i]
            first == FirstViolation(e.tool)
        IN  IF first = {} THEN e.outcome = Returns(TRUE)
            ELSE IF e.throwOnError
            THEN /\ e.outcome.kind = "McpError"
                 /\ {CheckOf(e.outcome.message)} = first
            ELSE e.outcome = Returns(FALSE)

\* C19: a tool definition in which both auth and authFrom are present
\* fails validation.
C19_AuthExcludesAuthFrom ==
    \A i \in DOMAIN server.validations :
        LET e == server.validations[i]
        IN  (Present(e.tool.auth) /\ Present(e.tool.authFrom))
            => e.outcome # Returns(TRUE)

\* C20: validation accepts a header-auth tool only when name and exactly
\* one of value / valueFromEnv are present, and a jwt-auth tool only when
\* exactly one of token / tokenFromEnv is present.
C20_ExactlyOneCredentialSource ==
    \A i \in DOMAIN server.validations :
        LET e == server.validations[i]
            a == e.tool.auth.obj
        IN  (e.outcome = Returns(TRUE) /\ e.tool.auth.kind = "object")
            => /\ a.type = "header"
                  => a.name # {} /\ ((a.value # {}) # (a.valueFromEnv # {}))
               /\ a.type = "jwt"
                  => (a.token # {}) # (a.tokenFromEnv # {})

----------------------------------------------------------------------------
(* validateManifest *)

\* the answer validateManifest gave
Validation == Val(manifestFile.validation)

\* the (1-based) positions of the entries whose name is the string str
Occurrences(str) ==
    {i \in DOMAIN manifestFile.config.items :
        /\ manifestFile.config.items[i].name.kind = "string"
        /\ manifestFile.config.items[i].name.str = str}

\* the entries of the error list that report str as a duplicate
DuplicateReports(str) ==
    {i \in DOMAIN Validation.errors : Validation.errors[i] = ManifestError("duplicate", NoIndex, str)}

NameStrings == {"x", "X", " "}

\* C21: validateManifest fails whenever two entries have the same name (a
\* non-empty string, compared exactly); every entry that repeats the name of
\* an earlier entry has its own duplicate message in the error list; and a
\* manifest passes only if validateTool accepts every entry and the names
\* are pairwise distinct.
C21_DuplicatesRejectedAndReported ==
    manifestFile.validation # {} /\ manifestFile.config.kind = "array" =>
        /\ \A str \in NameStrings :
               /\ Cardinality(Occurrences(str)) >= 2 => ~Validation.success
               /\ Cardinality(Occurrences(str)) >= 1 =>
                      Cardinality(DuplicateReports(str))
                          = Cardinality(Occurrences(str)) - 1
        /\ Validation.success =>
               /\ \A i \in DOMAIN manifestFile.config.items :
                      PassesValidation(manifestFile.config.items[i])
               /\ \A i, j \in DOMAIN manifestFile.config.items :
                      i # j => manifestFile.config.items[i].name
                                  # manifestFile.config.items[j].name

\* three entries named "x" next to none named "X": two duplicates reported
C21_Witness ==
    /\ manifestFile.validation # {}
    /\ Cardinality(Occurrences("x")) = 3
    /\ Cardinality(DuplicateReports("x")) = 2

----------------------------------------------------------------------------
(* transformSimplifiedTool *)

\* the entry as it was given, the object returned for it
Given == Val(transform.given)
Out == transform.heap[Val(transform.out)]

\* the entry given is {name, webhook: u} and nothing else, u a non-empty string
IsShorthand ==
    /\ Given.name # {}
    /\ Truthy(Given.webhook)
    /\ \A f \in DOMAIN Given \ {"name", "webhook"} : Given[f] = {}

\* C22: for a shorthand entry {name, webhook: u} the tool returned has
\* url = u, no webhook field, method POST, a non-empty description, the
\* empty-properties input schema and the single-field output schema, and
\* transforming that tool again returns the same object with the same fields.
C22_ShorthandExpansion ==
    transform.out # {} /\ IsShorthand =>
        /\ Out.url = Given.webhook
        /\ Out.webhook = {}
        /\ Out.method = {"POST"}
        /\ Truthy(Out.description)
        /\ Out.input = {"emptyPropertiesSchema"}
        /\ Out.output = {"resultStringSchema"}
        /\ Out.name = Given.name
        /\ transform.again # {} =>
               /\ transform.again = transform.out
               /\ transform.outBefore = {Out}
               /\ Len(transform.heap) = 2

C22_Witness ==
    /\ IsShorthand
    /\ transform.again # {}
    /\ Out.description = {"Forward to Send Email webhook"}

\* C23: transformSimplifiedTool leaves the object it is given as it was:
\* after the call the entry has the fields and values it had before, be it
\* canonical, shorthand or neither; the same holds for the second call.
C23_InputNotMutated ==
    /\ transform.out # {} => transform.heap[1] = Given
    /\ transform.again # {} => transform.outBefore = {Out}

\* a shorthand entry was expanded into another object that differs from it
C23_Witness ==
    /\ transform.out # {}
    /\ Truthy(Given.webhook) /\ ~Truthy(Given.url)
    /\ Val(transform.out) # 1
    /\ Out # Given
    /\ transform.again # {}

----------------------------------------------------------------------------
(* Asynchronous jobs *)

\* the callback delivery of job j fails: a non-2xx answer, a rejected or an
\* aborted fetch
DeliveryFails(j) ==
    CallbackBodyRead(j) \/ CallbackRejects(j) \/ CallbackAborts(j)

\* C24: when the callback delivery of a job fails, the job's status becomes
\* callback_failed and the execution outcome recorded before stays: the
\* stored result (after a success), the error message, status code and
\* details (after a failure), and the HealthMonitor statistics.
C24_DeliveryFailureKeepsOutcome ==
    [][\A j \in DOMAIN jobs :
          DeliveryFails(j) =>
              /\ jobs[j].status \in {"completed", "failed"}
              /\ jobs'[j].status = "callback_failed"
              /\ jobs'[j].result = jobs[j].result
              /\ jobs[j].status = "failed" =>
                     /\ Val(jobs'[j].error).message = Val(jobs[j].error).message
                     /\ Val(jobs'[j].error).status_code
                            = Val(jobs[j].error).status_code
                     /\ Val(jobs'[j].error).details = Val(jobs[j].error).details
              /\ stats' = stats]_vars

\* a failed execution was recorded, and then its callback could not be
\* delivered
C24_Witness ==
    \E j \in DOMAIN jobs :
        /\ jobs[j].status = "callback_failed"
        /\ Val(jobs[j].error).message # {}
        /\ Val(jobs[j].error).status_code = {500}
        /\ Val(jobs[j].error).callback_error # {}
        /\ jobs[j].toolName \in DOMAIN stats
        /\ stats[jobs[j].toolName].errors = 1

\* C25: a call of executeToolAndCallback makes exactly one POST to
\* callbackUrl: never more than one, none before executeTool has returned,
\* and one by the time the call is over.
C25_ExactlyOnePost ==
    \A j \in DOMAIN jobs :
        jobs[j].call # {} =>
            /\ jobs[j].posts <= 1
            /\ jobs[j].posts = 1 => pc[Val(jobs[j].call)] = "returned"
            /\ jobs[j].phase \in {"ended", "rejected"} => jobs[j].posts = 1

\* C26: when every fetch settles and every continuation runs, every job
\* created leaves `pending` and reaches completed, failed or callback_failed.
C26_JobsEventuallyExecuted ==
    \A j \in 1..MaxPosts :
        (j \in DOMAIN jobs) ~>
            (/\ j \in DOMAIN jobs
             /\ jobs[j].status \in {"completed", "failed", "callback_failed"})

----------------------------------------------------------------------------
(* HealthMonitor statistics *)

\* the calls whose successful result has been recorded for toolName
RecordedSuccesses(toolName) ==
    {c \in Calls : /\ pc[c] = "returned"
                   /\ recorded[c] > 0
                   /\ result[c].success
                   /\ result[c].tool = toolName}

\* the sum of the responseTime values of the results of a set of calls
RECURSIVE SumResponseTimes(_)
SumResponseTimes(cs) ==
    IF cs = {} THEN 0
    ELSE LET c == CHOOSE d \in cs : TRUE
         IN  result[c].responseTime + SumResponseTimes(cs \ {c})

\* C27: after any recordExecution calls for a tool, avgResponseTime is the
\* mean of the responseTime values of the successful results recorded for
\* it: avgResponseTime * success = their sum, responseTime 0 included.
C27_AvgIsMean ==
    \A toolName \in DOMAIN stats :
        /\ stats[toolName].success = Cardinality(RecordedSuccesses(toolName))
        /\ stats[toolName].avgResponseTime[1] * stats[toolName].success
              = SumResponseTimes(RecordedSuccesses(toolName))
                  * stats[toolName].avgResponseTime[2]

\* a step of performHealthCheck
HealthCheckStep ==
    \/ \E n \in Names : PerformHealthCheck(n)
    \/ \E status \in Statuses : ProbeResponds(status)
    \/ \E e \in JobFetchErrors \cup {AbortError} : ProbeFails(e)

\* C28: performHealthCheck leaves the HealthStats of every tool as they
\* are (total, success, errors, avgResponseTime, lastSuccess, lastError,
\* errorTypes), whether the probe is answered with a success status, with
\* an error status, or fails.
C28_HealthCheckKeepsStats ==
    [][HealthCheckStep => stats' = stats]_vars

\* an execution was recorded, then a probe begun later was answered 503
C28_Witness ==
    /\ \E n \in DOMAIN stats : stats[n].total = 1 /\ stats[n].success = 1
    /\ Len(monitor.checks) = 1
    /\ monitor.checks[1].status = {503}
    /\ ~monitor.checks[1].healthy
    /\ monitor.checks[1].timestamp - monitor.checks[1].responseTime
          > result[1].timestamp

----------------------------------------------------------------------------
(* Binary envelope *)

\* the object {binary: true, contentType: "image/png", data: "Zm9v"}
BinaryEnvelope == JsonOf("envelope")

\* call c settles in this step on a 2xx response whose body is the envelope:
\* the response is handed over as a stream, or its body has been read
EnvelopeAnswered(c) ==
    \/ /\ pc[c] = "fetching"
       /\ pc'[c] = "returned"
       /\ "stream" \in DOMAIN result'[c]
       /\ result'[c].stream = "envelope"
    \/ /\ pc[c] = "readingData"
       /\ Val(call[c].response).body = "envelope"
       /\ pc'[c] # "readingData"

\* C29: a 2xx response whose body is the JSON text of a binary envelope
\* yields success = true with data equal to that exact object, whatever the
\* Content-Type header of the response is.
C29_EnvelopePassthrough ==
    [][\A c \in Calls :
          EnvelopeAnswered(c) =>
              /\ pc'[c] = "returned"
              /\ result'[c].success
              /\ "data" \in DOMAIN result'[c]
              /\ result'[c].data = BinaryEnvelope]_vars

----------------------------------------------------------------------------
(* Streaming *)

\* the text chunks of the byte chunks, in arrival order
RECURSIVE TextChunks(_, _)
TextChunks(pending, arrived) ==
    IF arrived = <<>> THEN <<>>
    ELSE LET d == Decode(pending, Head(arrived))
         IN  <<d.text>> \o TextChunks(d.pending, Tail(arrived))

\* the chunks the generator has yielded that are not failure reports
Produced == SelectSeq(stream.yielded, LAMBDA chunk : ~chunk.isError)

\* C30: the generator produces the text chunks in the order the bytes
\* arrived, each exactly once; and when the result goes through the buffer,
\* the returned text is the marker followed by the concatenation of all
\* chunks in arrival order, none lost, duplicated or reordered.
C30_ChunksInOrderExactlyOnce ==
    LET texts == TextChunks(FALSE, stream.arrived)
    IN  /\ Len(Produced) = Len(texts)
        /\ \A i \in 1..Len(texts) : Produced[i].text = texts[i]
        /\ (stream.phase = "done" /\ stream.buffered) =>
              /\ stream.response # {}
              /\ Val(stream.response).text = Marker \o Join(texts)

----------------------------------------------------------------------------
(* Retry classification and configured retry parameters *)

\* the values a tool definition configures, the defaults when it has none
ConfiguredMaxRetries(tool) ==
    IF tool.maxRetries = {} THEN DefaultMaxRetries ELSE Val(tool.maxRetries)

ConfiguredTimeout(tool) ==
    IF tool.timeout = {} THEN DefaultTimeout ELSE Val(tool.timeout)

\* an attempt of call c ends in this step with an exception: fetch rejects,
\* the timeout aborts it, or reading the body of its response throws
AttemptThrows(c) ==
    /\ pc[c] \in {"fetching", "readingData"}
    /\ pc'[c] # pc[c]
    /\ call'[c].error # {}

\* C32: a failed attempt is retried only if attempts remain and the failure
\* is a timeout/abort, a connection reset, a DNS resolution failure or a
\* connection timeout; any other exception ends the call after that attempt
\* with a failure result; a timed-out attempt is a failed attempt that is
\* retried when attempts remain.
C32_RetryOnlyRetryable ==
    [][\A c \in Calls :
          AttemptThrows(c) =>
              LET error == Val(call'[c].error)
                  remain == call[c].attempt < ConfiguredMaxRetries(ToolOf(c))
              IN  /\ pc'[c] \in {"sleeping", "returned"}
                  /\ pc'[c] = "sleeping" => (remain /\ RetryableFailure(error))
                  /\ ~RetryableFailure(error) =>
                        /\ pc'[c] = "returned"
                        /\ ~result'[c].success
                        /\ attempts'[c] = attempts[c]
                  /\ (error.name = "AbortError" /\ remain) =>
                        pc'[c] = "sleeping"]_vars

\* the largest of two numbers
Max(a, b) == IF a >= b THEN a ELSE b

\* C33: executeTool uses the configured timeout, maxRetries and retryDelay
\* for every value validateTool accepts (maxRetries 0..10, retryDelay >= 0,
\* timeout > 0), and the defaults 30000, 3 and 1000 only when the field is
\* absent: each attempt is armed with the configured timeout, no call makes
\* more attempts than the configured maxRetries allows (one attempt when it
\* is 0), and the k-th sleep is the configured retryDelay * 2^(k-1).
C33_ConfiguredValuesUsed ==
    \A c \in Calls :
        pc[c] # "idle" =>
            LET tool == ToolOf(c)
            IN  /\ pc[c] = "fetching" =>
                      call[c].timer = call[c].since + ConfiguredTimeout(tool)
                /\ attempts[c] <= Max(1, ConfiguredMaxRetries(tool))
                /\ \A k \in DOMAIN sleeps[c] :
                      sleeps[c][k] = ConfiguredRetryDelay(tool) * Pow2(k - 1)

----------------------------------------------------------------------------
(* Error body of a non-2xx response *)

\* the details the body of an error response stands for: the parsed JSON,
\* else the body as plain text, else the placeholder
DetailsOf(body) ==
    IF IsJsonText(body) THEN JsonOf(body)
    ELSE IF body # "unreadable" THEN TextOf(body)
    ELSE TextOf("Could not parse error response body.")

\* C34: for a non-2xx response executeTool returns success = false with the
\* upstream status code and details equal to the parsed JSON body if the
\* body is JSON, else the body as plain text, else (only if the body cannot
\* be read at all) the placeholder.
C34_ErrorBodyDetails ==
    [][\A c \in Calls :
          (pc[c] = "readingError" /\ pc'[c] # "readingError") =>
              LET response == Val(call[c].response)
              IN  /\ pc'[c] = "returned"
                  /\ ~result'[c].success
                  /\ result'[c].status = response.status
                  /\ result'[c].details = DetailsOf(response.body)]_vars

----------------------------------------------------------------------------
(* HealthMonitor counters *)

\* the sum of the counters of an errorTypes Map
RECURSIVE SumCounts(_, _)
SumCounts(errorTypes, keys) ==
    IF keys = {} THEN 0
    ELSE LET k == CHOOSE x \in keys : TRUE
         IN  errorTypes[k] + SumCounts(errorTypes, keys \ {k})

\* the counters of toolName, all 0 when the Map has no entry for it
StatsOf(st, toolName) ==
    IF toolName \in DOMAIN st THEN st[toolName] ELSE NewStats

\* the counters of toolName do not decrease in this step
CountersGrow(toolName) ==
    LET old == StatsOf(stats, toolName)
        new == StatsOf(stats', toolName)
    IN  /\ new.total >= old.total
        /\ new.success >= old.success
        /\ new.errors >= old.errors
        /\ \A k \in DOMAIN old.errorTypes :
              /\ k \in DOMAIN new.errorTypes
              /\ new.errorTypes[k] >= old.errorTypes[k]

C35_CountersConsistent ==
    \A n \in DOMAIN stats :
        /\ stats[n].total = stats[n].success + stats[n].errors
        /\ SumCounts(stats[n].errorTypes, DOMAIN stats[n].errorTypes)
              = stats[n].errors
        /\ stats[n].total = Recordings(n) - monitor.cleared[n]

C35_CountersMonotone ==
    \A n \in StoreNames :
        ~(ClearStats(n) \/ ClearAllStats) => CountersGrow(n)

\* C35: after any sequence and interleaving of executeTool calls and
\* recordExecution calls, each tool's counters satisfy total = success +
\* errors, the per-error-kind counters sum to errors, total is the number of
\* recordExecution calls made for the tool since its last clear, and no
\* counter decreases except by clearStats or clearAllStats.
C35_CountersExact == [](C35_CountersConsistent) /\ [][C35_CountersMonotone]_vars

\* statistics cleared after a recording and recorded again, by executeTool
\* and from outside, with two kinds of error counted
C35_Witness ==
    /\ monitor.cleared["echo"] = 1
    /\ "echo" \in DOMAIN stats
    /\ stats["echo"].total = 2
    /\ stats["echo"].errors = 2
    /\ recorded[1] = 1
    /\ DOMAIN stats["echo"].errorTypes = {"unknown", "Error"}

----------------------------------------------------------------------------
(* Job status *)

\* the moves pending -> processing -> (completed | failed) -> callback_failed
StatusMoves ==
    {<<"pending", "processing">>,
     <<"processing", "completed">>, <<"processing", "failed">>,
     <<"completed", "callback_failed">>, <<"failed", "callback_failed">>}

\* C36: a job's status only moves forward along pending -> processing ->
\* (completed | failed) -> callback_failed: it never returns to an earlier
\* status, completed and failed are never both reached for one job, and
\* callback_failed is reached only after completed or failed.
C36_StatusMovesForward ==
    [][/\ \A j \in DOMAIN jobs :
             /\ j \in DOMAIN jobs'
             /\ jobs'[j].status # jobs[j].status =>
                   <<jobs[j].status, jobs'[j].status>> \in StatusMoves
       /\ \A j \in DOMAIN jobs' \ DOMAIN jobs :
             jobs'[j].status \in {"pending", "processing"}]_vars

\* a job that was completed has reached callback_failed
C36_Witness ==
    \E j \in DOMAIN jobs :
        /\ jobs[j].status = "callback_failed"
        /\ jobs[j].result # {}
        /\ jobs[j].posts = 1

----------------------------------------------------------------------------
(* Outbound attempts of a rate-limited tool *)

\* the attempts of call c known to have begun inside the window ending at
\* t: its first attempt began at startTime, its current attempt at since
AttemptsIn(c, t, window) ==
    (IF attempts[c] >= 1 /\ call[c].startTime > t - window
                         /\ call[c].startTime <= t
     THEN 1 ELSE 0)
    + (IF call[c].attempt >= 2 /\ call[c].since > t - window
                               /\ call[c].since <= t
       THEN 1 ELSE 0)

RECURSIVE SumAttempts(_, _, _)
SumAttempts(cs, t, window) ==
    IF cs = {} THEN 0
    ELSE LET c == CHOOSE x \in cs : TRUE
         IN  AttemptsIn(c, t, window) + SumAttempts(cs \ {c}, t, window)

\* C37: within any sliding window, the outbound HTTP attempts made to a
\* rate-limited tool, the retry attempts of admitted calls included, never
\* exceed rateLimit.requests.
C37_AttemptsWithinQuota ==
    \A n \in Names :
        manifest[n].rateLimit # {}
        => LET config == Val(manifest[n].rateLimit)
               cs == {c \in Calls : call[c].tool = n}
           IN  \* a window holds the most attempts when it ends at an attempt
               \A t \in {call[c].startTime : c \in cs}
                         \cup {call[c].since : c \in cs} :
                  SumAttempts(cs, t, config.window) <= config.requests

----------------------------------------------------------------------------
(* Isolation of the per-tool state *)

\* what a Map holds for key k
Entry(m, k) == IF k \in DOMAIN m THEN {m[k]} ELSE {}

\* this step is a call of the rate limiter for toolName
RateLimiterStep(toolName) ==
    \/ \E cfg \in StoreConfigs : IsAllowedCall(toolName, cfg)
    \/ \E cfg \in StoreConfigs : GetStatusCall(toolName, cfg)
    \/ ClearCall(toolName)

\* this step is recordExecution or clearStats for toolName
HealthMonitorStep(toolName) ==
    \/ \E res \in DirectResults(toolName) : RecordExecutionCall(toolName, res)
    \/ ClearStats(toolName)

\* this step is a query: getStatus or getHealth
QueryStep ==
    \E n \in StoreNames :
        \/ \E cfg \in StoreConfigs : GetStatusCall(n, cfg)
        \/ GetHealthCall(n)

\* C38: isAllowed, getStatus and clear for tool A never change the stored
\* window of a different tool B; recordExecution and clearStats for tool A
\* never change the HealthStats of tool B; getStatus and getHealth change no
\* state at all.
C38_PerToolIsolation ==
    [][/\ \A a \in StoreNames : \A b \in StoreNames \ {a} :
             /\ RateLimiterStep(a) => Entry(windows', b) = Entry(windows, b)
             /\ HealthMonitorStep(a) => Entry(stats', b) = Entry(stats, b)
       /\ QueryStep => (windows' = windows /\ stats' = stats)]_vars

\* both tools have a window, the statistics of one tool were cleared and
\* the other tool's are kept
C38_Witness ==
    /\ DOMAIN windows = StoreNames
    /\ windows["echo"] # windows["other"]
    /\ monitor.cleared["echo"] = 1
    /\ "echo" \notin DOMAIN stats
    /\ "other" \in DOMAIN stats
    /\ stats["other"].total = 1

----------------------------------------------------------------------------
(* Shorthand manifests *)

\* the entries of the manifest as they were parsed: transformSimplifiedTool
\* leaves them where they were on the heap
ParsedEntry(i) == transform.heap[i]

\* entry i is {name, webhook} with a non-empty string for each
NonEmptyShorthand(i) ==
    /\ Truthy(ParsedEntry(i).name)
    /\ Truthy(ParsedEntry(i).webhook)
    /\ \A f \in DOMAIN ParsedEntry(i) \ {"name", "webhook"} :
          ParsedEntry(i)[f] = {}

\* C39: every shorthand entry {name, webhook} with a non-empty string name
\* and a non-empty string webhook passes validateTool after
\* transformSimplifiedTool, so a manifest of distinct-named shorthand
\* entries is accepted by validateManifest and none of its tools is filtered
\* out when the tools are listed.
C39_ShorthandAccepted ==
    manifestFile.validation # {} =>
        LET items == manifestFile.config.items
        IN  /\ \A i \in DOMAIN items :
                   NonEmptyShorthand(i) => PassesValidation(items[i])
            /\ (/\ \A i \in DOMAIN items : NonEmptyShorthand(i)
                /\ \A i, j \in DOMAIN items :
                      i # j => ParsedEntry(i).name # ParsedEntry(j).name)
               => /\ Validation.success
                  /\ server.listed # {} =>
                         /\ Val(server.listed).ok
                         /\ Val(server.listed).tools = items

----------------------------------------------------------------------------
(* A stream whose read fails *)

\* what the client is finally given: the buffered response, or the last
\* chunk the generator yielded
FinalResponse ==
    IF stream.buffered THEN Val(stream.response)
    ELSE stream.yielded[Len(stream.yielded)]

\* C40: if reading a streaming response fails part-way, the response finally
\* returned to the client is marked isError, both when the chunks are
\* forwarded one by one and when they are buffered into one text; a read
\* failure is never reported as a successful result.
C40_ReadFailureIsError ==
    stream.phase = "done" /\ stream.failed => FinalResponse.isError

----------------------------------------------------------------------------
(* The DEBUG option *)

\* the call has ended: executeTool returned, or new URL threw
Ended(c) == pc[c] \in {"returned", "raised"}

\* a result without the readings of the clock
Outcome(res) ==
    [f \in DOMAIN res \ {"timestamp", "responseTime"} |-> res[f]]

\* C31: debug mode never changes an outcome: for the same tool, args,
\* caller headers, environment and upstream behaviour, executeTool with
\* DEBUG on and with DEBUG off return the same result (or both raise), and
\* validateTool with debug on and off ends in the same boolean (or the same
\* error).
C31_DebugNeverChangesOutcome ==
    /\ (setup.replay # {} /\ Ended(1) /\ Ended(2)) =>
           /\ call[1].debug /\ ~call[2].debug
           /\ pc[1] = pc[2]
           /\ Outcome(result[1]) = Outcome(result[2])
    /\ \A i, j \in DOMAIN server.validations :
           LET v == server.validations[i]
               w == server.validations[j]
           IN  (v.throwOnError = w.throwOnError /\ v.debug /\ ~w.debug)
               => /\ v.outcome = w.outcome
                  /\ w.outcome = ValidateTool(w.tool, w.throwOnError)

\* both calls were retried once and then answered with 200, at different
\* times; only the call with DEBUG has written to the console
C31_Witness ==
    /\ setup.replay # {}
    /\ pc[1] = "returned" /\ pc[2] = "returned"
    /\ attempts[1] = 2 /\ attempts[2] = 2
    /\ "data" \in DOMAIN result[1]
    /\ result[1].status = 200
    /\ result[1].timestamp # result[2].timestamp
    /\ "Attempt failed, retrying" \in Elements(call[1].console)
    /\ "Tool execution response" \in Elements(call[1].console)
    /\ call[2].console = <<>>

====
